---- MODULE Spec2Model ----
(***************************************************************************)
(* Model of the Maximum Agreement Linear Predictor estimator               *)
(* (src/src/sagemaker/model/malp.py).                                      *)
(*                                                                         *)
(* Real numbers are fixed-point integers: a value v of the program is the  *)
(* integer v * Scale.  Feature matrices hold whole numbers (kept unscaled),*)
(* targets, coefficients, intercepts and predictions are scaled.  Every    *)
(* division rounds to the nearest unit, as a floating-point division       *)
(* rounds to the nearest representable number.                             *)
(***************************************************************************)
EXTENDS Integers, Sequences, FiniteSets, TLC

Scale == 100000

\* ------------------------------------------------------------------------
\* Bounds of the model
\* ------------------------------------------------------------------------
MaxModels == 2

\* ------------------------------------------------------------------------
\* Optional values: None is the empty sequence, Some(v) a one-element one
\* ------------------------------------------------------------------------
None == << >>
Some(v) == << v >>
IsNone(o) == Len(o) = 0
Get(o) == o[1]

\* ------------------------------------------------------------------------
\* numpy arrays: [ndim |-> 1 or 2, a |-> the rows]; a one-dimensional array
\* keeps its entries in a single row
\* ------------------------------------------------------------------------
Arr1(v) == [ndim |-> 1, a |-> << v >>]
Arr2(rows) == [ndim |-> 2, a |-> rows]
NRows(X) == Len(X.a)
NCols(X) == IF Len(X.a) = 0 THEN 0 ELSE Len(X.a[1])

Abs(v) == IF v < 0 THEN -v ELSE v

RECURSIVE SumSeq(_)
SumSeq(s) == IF Len(s) = 0 THEN 0 ELSE s[1] + SumSeq(Tail(s))

\* a / b rounded to the nearest unit (b > 0)
RoundDiv(a, b) == (2 * a + b) \div (2 * b)

\* np.mean of a list of scalars
Mean(s) == RoundDiv(SumSeq(s), Len(s))

\* np.mean(..., axis=0) of a list of equally long vectors
MeanAxis0(vs) == [j \in 1..Len(vs[1]) |-> Mean([m \in 1..Len(vs) |-> vs[m][j]])]

\* row . coef (numpy requires the two to be equally long)
Dot(row, coef) == SumSeq([j \in 1..Len(coef) |-> row[j] * coef[j]])

\* ------------------------------------------------------------------------
\* sklearn.linear_model.Ridge(alpha, fit_intercept=True), as malp.py uses it
\* ------------------------------------------------------------------------
\* Ridge.fit validates its input first: X must be 2-D with at least one row
\* and one column, and y must have one entry per row of X.
RidgeFitRaises(X, y) ==
    \/ X.ndim # 2
    \/ NRows(X) = 0
    \/ NCols(X) = 0
    \/ Len(y) # NRows(X)

ColSum(X, j) == SumSeq([i \in 1..NRows(X) |-> X.a[i][j]])

\* n times the centred Gram entry:  n * sum(x_j x_l) - sum(x_j) sum(x_l)
GramN(X, j, l) ==
    NRows(X) * SumSeq([i \in 1..NRows(X) |-> X.a[i][j] * X.a[i][l]])
        - ColSum(X, j) * ColSum(X, l)

\* n times the centred moment:  n * sum(x_j y) - sum(x_j) sum(y)
MomentN(X, y, j) ==
    NRows(X) * SumSeq([i \in 1..NRows(X) |-> X.a[i][j] * y[i]])
        - ColSum(X, j) * SumSeq(y)

\* The minimiser of ||y - X b - c||^2 + alpha ||b||^2 over b (c unpenalised):
\* (Xc'Xc + alpha I) b = Xc'yc with Xc, yc centred; solved in closed form for
\* one and for two features.
RidgeCoef(X, y, alpha) ==
    LET n  == NRows(X)
        an == n * alpha
    IN  IF NCols(X) = 1
        THEN << RoundDiv(MomentN(X, y, 1), GramN(X, 1, 1) + an) >>
        ELSE LET g11 == GramN(X, 1, 1) + an
                 g22 == GramN(X, 2, 2) + an
                 g12 == GramN(X, 1, 2)
                 m1  == MomentN(X, y, 1)
                 m2  == MomentN(X, y, 2)
                 det == g11 * g22 - g12 * g12
             IN  << RoundDiv(g22 * m1 - g12 * m2, det),
                    RoundDiv(g11 * m2 - g12 * m1, det) >>

\* intercept_ = mean(y) - mean(X) . coef_
RidgeIntercept(X, y, coef) ==
    RoundDiv(SumSeq(y) - SumSeq([j \in 1..NCols(X) |-> ColSum(X, j) * coef[j]]),
             NRows(X))

\* The fitted model object Ridge.fit leaves behind.
RidgeFit(X, y, alpha) ==
    LET c == RidgeCoef(X, y, alpha)
    IN  [fitted |-> TRUE, coef_ |-> c, intercept_ |-> RidgeIntercept(X, y, c),
         n_features_in_ |-> NCols(X)]

\* Ridge(...) before fit: no coef_, no intercept_.
RidgeNew == [fitted |-> FALSE, coef_ |-> << >>, intercept_ |-> 0, n_features_in_ |-> 0]

\* Fault: surplus columns are let through and ignored.
RidgePredictAcceptsWider(model, X) ==
    \/ X.ndim # 2
    \/ NRows(X) = 0
    \/ NCols(X) < model.n_features_in_

\* Ridge.predict validates X against the feature count seen by fit.
RidgePredictRaises(model, X) ==
    \/ X.ndim # 2
    \/ NRows(X) = 0
    \/ NCols(X) # model.n_features_in_

\* Ridge.predict: X @ coef_ + intercept_
RidgePredict(model, X) ==
    [i \in 1..NRows(X) |-> Dot(X.a[i], model.coef_) + model.intercept_]

\* Fault: copy_X=False, the offset is subtracted from the caller's matrix.
XShiftedInPlace(X) ==
    [X EXCEPT !.a = [r \in 1..Len(X.a) |->
                       [c \in 1..Len(X.a[r]) |-> X.a[r][c] - X.a[Len(X.a)][c]]]]

\* Ridge.fit works on a copy of X (copy_X=True is the default and malp.py
\* never passes copy_X=False), and never writes to y.
XAfterRidge(X) == X
YAfterRidge(y) == y

\* ------------------------------------------------------------------------
\* Inputs the callers draw from
\* ------------------------------------------------------------------------
\* Training sets.  The centred feature matrices have full column rank, so the
\* ridge solve is well posed for every alpha >= 0.  Targets are scaled.
XOneWide   == Arr2(<< <<0>>, <<2>> >>)
XOneNarrow == Arr2(<< <<0>>, <<1>> >>)
XTwo       == Arr2(<< <<0, 0>>, <<1, 0>>, <<0, 1>> >>)

Datasets ==
    { [X |-> XOneWide,   y |-> << 0, 2 * Scale >>],
      [X |-> XOneNarrow, y |-> << 0, Scale >>],
      [X |-> XTwo,       y |-> << 0, Scale \div 1000, Scale \div 2 >>],
      [X |-> XTwo,       y |-> << Scale, -(3 * Scale), 0 >>],
      \* y shorter than X: Ridge.fit rejects it
      [X |-> XOneNarrow, y |-> << Scale >>],
      \* X one-dimensional: X.shape does not unpack into two names
      [X |-> Arr1(<< 0, 1 >>), y |-> << 0, Scale >>] }

\* Matrices handed to predict.
PredictInputs ==
    { Arr2(<< <<3>>, <<1>> >>), Arr2(<< <<1, 2>> >>), XTwo, Arr1(<< 1, 2 >>) }

Alphas == {0, 1, 2}
Seeds == {None, Some(42)}

\* Keyword arguments a caller may add to the constructor call beyond the
\* four __init__ declares (absent: None).
NoKwargs == [max_iterations |-> None, tolerance |-> None]
CtorKwargs ==
    { [max_iterations |-> mi, tolerance |-> t] :
        mi \in {None, Some(3)}, t \in {None, Some(Scale \div 100)} }

\* ------------------------------------------------------------------------
\* Python strings: sequences of one-character strings
\* ------------------------------------------------------------------------
\* s.replace(a, b) for single characters a and b
Replace(s, a, b) == [i \in 1..Len(s) |-> IF s[i] = a THEN b ELSE s[i]]

\* s.replace(a, '') for a single character a
Remove(s, a) == SelectSeq(s, LAMBDA c : c # a)

LowerChar(c) ==
    CASE c = "A" -> "a" [] c = "B" -> "b" [] c = "C" -> "c" [] c = "D" -> "d"
      [] c = "E" -> "e" [] c = "F" -> "f" [] c = "G" -> "g" [] c = "H" -> "h"
      [] c = "I" -> "i" [] c = "J" -> "j" [] c = "K" -> "k" [] c = "L" -> "l"
      [] c = "M" -> "m" [] c = "N" -> "n" [] c = "O" -> "o" [] c = "P" -> "p"
      [] c = "Q" -> "q" [] c = "R" -> "r" [] c = "S" -> "s" [] c = "T" -> "t"
      [] c = "U" -> "u" [] c = "V" -> "v" [] c = "W" -> "w" [] c = "X" -> "x"
      [] c = "Y" -> "y" [] c = "Z" -> "z" [] OTHER -> c

\* s.lower()
Lower(s) == [i \in 1..Len(s) |-> LowerChar(s[i])]

\* sub in s
Contains(s, sub) ==
    \E i \in 1..(Len(s) - Len(sub) + 1) : SubSeq(s, i, i + Len(sub) - 1) = sub

\* s[-4:]
LastFour(s) == IF Len(s) <= 4 THEN s ELSE SubSeq(s, Len(s) - 3, Len(s))

\* ------------------------------------------------------------------------
\* ABSDataLoader (src/src/utils/data_loader.py)
\* ------------------------------------------------------------------------
AUTO_LOAN    == << "A", "U", "T", "O", "_", "L", "O", "A", "N" >>
CREDIT_CARD  == << "C", "R", "E", "D", "I", "T", "_", "C", "A", "R", "D" >>
STUDENT_LOAN == << "S", "T", "U", "D", "E", "N", "T", "_", "L", "O", "A", "N" >>
MORTGAGE     == << "M", "O", "R", "T", "G", "A", "G", "E" >>

\* __init__ (lines 19-20)
NewLoader == [asset_classes |-> << AUTO_LOAN, CREDIT_CARD, STUDENT_LOAN, MORTGAGE >>]

\* Asset classes a caller asks for: the four listed ones, one never listed,
\* a listed one in lower case and one spelt with a space.
INVALID_CLASS == << "I", "N", "V", "A", "L", "I", "D", "_", "C", "L", "A", "S", "S" >>
RequestedClasses ==
    { AUTO_LOAN, CREDIT_CARD, STUDENT_LOAN, MORTGAGE, INVALID_CLASS,
      Lower(AUTO_LOAN), Replace(AUTO_LOAN, "_", " ") }

\* The largest count a caller asks for.
MaxCount == 2

\* CIKs a caller passes to get_mock_filings_by_cik: "0009876543" and "".
CallerCiks == { << "0", "0", "0", "9", "8", "7", "6", "5", "4", "3" >>, << >> }

\* Values random.randint(1000000, 9999999) is drawn from (line 37), formatted
\* as seven digits: the two ends of the range.
RandomCiks ==
    { << "1", "0", "0", "0", "0", "0", "0" >>, << "9", "9", "9", "9", "9", "9", "9" >> }
\* Line 61
FormTypes == { "ABS-EE", "10-D", "10-K", "8-K" }
\* Values random.randint(1, 5) is drawn from (line 67): the two ends.
SeriesDraws == { "1", "5" }

BackedSecurities ==
    << " ", "b", "a", "c", "k", "e", "d", " ",
       "s", "e", "c", "u", "r", "i", "t", "i", "e", "s" >>
ExampleIssuer ==
    << "E", "x", "a", "m", "p", "l", "e", " ", "I", "s", "s", "u", "e", "r", " " >>

\* _generate_single_filing (lines 57-95), given the values its random draws
\* produced.  The fields kept are the ones computed from the CIK or from the
\* asset class, and the form type; the date fields and the numeric metrics
\* are independent draws that nothing else reads.  "YYYY" stands for the
\* current year.
SingleFiling(cik, asset_class, form, series) ==
    [cik         |-> cik,
     companyName |-> ExampleIssuer \o LastFour(cik) \o << " ", "L", "L", "C" >>,
     formType    |-> form,
     deal_name   |-> Replace(asset_class, "_", " ")
                         \o << " ", "T", "r", "u", "s", "t", " ", "YYYY", "-", series >>,
     description |-> Replace(asset_class, "_", " ") \o BackedSecurities]

NoLoaderFrame ==
    [pc |-> "idle", op |-> "none", asset_class |-> << >>, cik |-> << >>, count |-> 0,
     original_asset_classes |-> << >>, filings |-> << >>,
     listed |-> FALSE, generated |-> 0]

NoLoaderResult ==
    [op |-> "none", status |-> "none", exc |-> "", value |-> << >>,
     asset_class |-> << >>, cik |-> << >>, count |-> 0, listed |-> FALSE, generated |-> 0]

\* ------------------------------------------------------------------------
\* filing_normalizer (src/src/lambda/filing_normalizer.py)
\* ------------------------------------------------------------------------
\* The largest number of records in an event.
MaxRecords == 2

\* One entry of event['Records'].  kind: "s3" (the entry has an 's3' dict),
\* "kinesis" (a 'kinesis' dict), "empty" ({}) or "string" (not a dict at
\* all).  bucket and key: record['s3']['bucket']['name'] and
\* record['s3']['object']['key'], None where the entry lacks them.  outcome:
\* what the services do when this record is processed.
Outcomes == { "ok", "get_fails", "not_json", "dynamo_fails", "put_fails" }

EventRecords ==
    { [kind |-> "s3", bucket |-> Some("raw"), key |-> Some(k), outcome |-> o] :
        k \in { "a.json", "b.json" }, o \in Outcomes }
    \cup { [kind |-> "s3", bucket |-> None, key |-> Some("a.json"), outcome |-> "ok"],
           [kind |-> "s3", bucket |-> Some("raw"), key |-> None, outcome |-> "ok"],
           [kind |-> "empty", bucket |-> None, key |-> None, outcome |-> "ok"],
           [kind |-> "string", bucket |-> None, key |-> None, outcome |-> "ok"] }
    \cup { [kind |-> "kinesis", bucket |-> None, key |-> None, outcome |-> o] :
             o \in { "ok", "get_fails" } }

RECURSIVE SeqsUpTo(_, _)
SeqsUpTo(S, n) ==
    IF n = 0 THEN { << >> }
    ELSE LET shorter == SeqsUpTo(S, n - 1)
         IN  shorter \cup { Append(s, e) : s \in shorter, e \in S }

\* The events the handler is invoked with: event['Records'] of every length
\* up to MaxRecords.
Events == SeqsUpTo(EventRecords, MaxRecords)

\* The filings behind the object keys and behind the Kinesis payload.
FilingData(key) ==
    IF key = "a.json"
    THEN [accessionNo |-> << "0", "1", "-", "2", "3", "-", "7" >>,
          description |-> Replace(AUTO_LOAN, "_", " ") \o BackedSecurities]
    ELSE IF key = "b.json"
    THEN [accessionNo |-> << "0", "2", "-", "2", "4", "-", "9" >>,
          description |-> << "C", "r", "e", "d", "i", "t", " ", "C", "a", "r", "d", " ",
                             "r", "e", "c", "e", "i", "v", "a", "b", "l", "e", "s" >>]
    ELSE [accessionNo |-> << "0", "3", "-", "2", "4", "-", "1" >>,
          description |-> << "o", "t", "h", "e", "r" >>]

\* _determine_asset_class (lines 105-122)
DetermineAssetClass(filing_data) ==
    LET description == Lower(filing_data.description)
        has(w) == Contains(description, w)
    IN  IF has(<< "a", "u", "t", "o" >>) \/ has(<< "v", "e", "h", "i", "c", "l", "e" >>)
        THEN "AUTO_LOAN"
        ELSE IF has(<< "c", "r", "e", "d", "i", "t", " ", "c", "a", "r", "d" >>)
                \/ has(<< "c", "r", "e", "d", "i", "t", "c", "a", "r", "d" >>)
        THEN "CREDIT_CARD"
        ELSE IF has(<< "s", "t", "u", "d", "e", "n", "t" >>)
                \/ has(<< "e", "d", "u", "c", "a", "t", "i", "o", "n" >>)
        THEN "STUDENT_LOAN"
        ELSE IF has(<< "m", "o", "r", "t", "g", "a", "g", "e" >>)
                \/ has(<< "r", "e", "s", "i", "d", "e", "n", "t", "i", "a", "l" >>)
        THEN "MORTGAGE"
        ELSE IF has(<< "e", "q", "u", "i", "p", "m", "e", "n", "t" >>)
        THEN "EQUIPMENT"
        ELSE IF has(<< "c", "o", "m", "m", "e", "r", "c", "i", "a", "l" >>)
        THEN "COMMERCIAL"
        ELSE "OTHER"

\* normalize_filing (lines 35-99): the two fields lambda_handler and
\* save_to_s3 read; the others are copies and safe conversions of the
\* filing's entries.
NormalizeFiling(filing_data) ==
    [filing_id   |-> Remove(filing_data.accessionNo, "-"),
     asset_class |-> DetermineAssetClass(filing_data)]

\* save_to_s3, line 196: the object key ("YYYY": the current year)
ProcessedKey(normalized) ==
    << "normalized", "YYYY", normalized.asset_class, normalized.filing_id >>

NoHandlerFrame ==
    [pc |-> "idle", event |-> << >>, idx |-> 0, bucket |-> None, key |-> None,
     processed_count |-> 0, errors |-> << >>, exc |-> "", attempted |-> {}]

NoResponse ==
    [status |-> "none", statusCode |-> 0, processed_count |-> 0, errors |-> None,
     error |-> "", event |-> << >>, attempted |-> {}]

\* ------------------------------------------------------------------------
\* RiskScorer (src/src/lambda/risk_scorer.py)
\* ------------------------------------------------------------------------
\* Ratios, rates and scores are scaled by Scale; FICO scores, balances and
\* month counts are whole numbers.

\* Line 29: float(os.environ.get('HIGH_RISK_THRESHOLD', '0.75'))
HIGH_RISK_THRESHOLD == (3 * Scale) \div 4

\* The largest number of records in an event of the risk scorer.
MaxFilings == 2

\* filing_data as json.loads returns it.  A key that is absent (or null) is
\* None.  kind "text": 'delinquency_90_plus_days' holds a string, not a
\* number.  filing_date is read through the number of months it lies back.
\* The filings vary the performance figures of a seasoned pool, the
\* collateral figures of a distressed one, and add the pool whose rule-based
\* additions are 0.10 + 0.25 + 0.05.
ScoredFilings ==
    [kind : {"numeric"},
     delinquency_90_plus_days : {None, Some((7 * Scale) \div 100), Some((12 * Scale) \div 100)},
     weighted_average_fico : {None, Some(600), Some(640)},
     cumulative_loss_rate : {None, Some((6 * Scale) \div 100)},
     weighted_average_ltv : {None},
     original_pool_balance : {Some(100)},
     current_pool_balance : {Some(50)},
     filing_date : {Some(30)}]
        \cup
    [kind : {"numeric"},
     delinquency_90_plus_days : {Some((12 * Scale) \div 100)},
     weighted_average_fico : {Some(600)},
     cumulative_loss_rate : {Some((6 * Scale) \div 100)},
     weighted_average_ltv : {None, Some((85 * Scale) \div 100), Some((95 * Scale) \div 100)},
     original_pool_balance : {None, Some(100)},
     current_pool_balance : {Some(10), Some(50)},
     filing_date : {None, Some(30)}]
        \cup
    [kind : {"numeric"},
     delinquency_90_plus_days : {None},
     weighted_average_fico : {Some(640)},
     cumulative_loss_rate : {Some((6 * Scale) \div 100)},
     weighted_average_ltv : {Some((85 * Scale) \div 100)},
     original_pool_balance : {Some(100)},
     current_pool_balance : {Some(50)},
     filing_date : {None, Some(30)}]
        \cup
    [kind : {"text"},
     delinquency_90_plus_days : {None},
     weighted_average_fico : {Some(600)},
     cumulative_loss_rate : {None},
     weighted_average_ltv : {None},
     original_pool_balance : {None},
     current_pool_balance : {Some(10)},
     filing_date : {None}]

\* dict.get(key, default) or default (lines 46-63)
GetOr(o, default) == IF IsNone(o) \/ Get(o) = 0 THEN default ELSE Get(o)

\* _calculate_pool_balance_ratio (lines 79-86)
CalculatePoolBalanceRatio(filing_data) ==
    LET original == GetOr(filing_data.original_pool_balance, 0)
        current == GetOr(filing_data.current_pool_balance, 0)
    IN IF original > 0 THEN RoundDiv(Scale * current, original) ELSE 0

\* _calculate_months_since_origination (lines 88-99)
CalculateMonthsSinceOrigination(filing_date) ==
    IF IsNone(filing_date) THEN 0 ELSE Get(filing_date)

\* extract_features (lines 40-77), the features the scores are computed from.
ExtractFeatures(filing_data) ==
    [numeric |-> filing_data.kind = "numeric",
     delinquency_90_plus_days |-> GetOr(filing_data.delinquency_90_plus_days, 0),
     cumulative_loss_rate |-> GetOr(filing_data.cumulative_loss_rate, 0),
     weighted_average_fico |-> GetOr(filing_data.weighted_average_fico, 700),
     weighted_average_ltv |-> GetOr(filing_data.weighted_average_ltv, 0),
     pool_balance_ratio |-> CalculatePoolBalanceRatio(filing_data),
     months_since_origination |->
         CalculateMonthsSinceOrigination(filing_data.filing_date)]

\* round(score, 4): the nearest multiple of 1e-4
Round4(score) == (Scale \div 10000) * RoundDiv(score, Scale \div 10000)

\* Fault: the level is cut one step late, CRITICAL starts at 0.76.
CategorizeRiskLate(score) ==
    IF score >= (76 * Scale) \div 100 THEN "CRITICAL"
    ELSE IF score >= (60 * Scale) \div 100 THEN "HIGH"
    ELSE IF score >= (40 * Scale) \div 100 THEN "MEDIUM"
    ELSE IF score >= (20 * Scale) \div 100 THEN "LOW"
    ELSE "MINIMAL"

\* _categorize_risk (lines 214-225)
CategorizeRisk(score) ==
    IF score >= (75 * Scale) \div 100 THEN "CRITICAL"
    ELSE IF score >= (60 * Scale) \div 100 THEN "HIGH"
    ELSE IF score >= (40 * Scale) \div 100 THEN "MEDIUM"
    ELSE IF score >= (20 * Scale) \div 100 THEN "LOW"
    ELSE "MINIMAL"

\* risk_score += addend in double precision.  The decimal sum is exact at the
\* model's resolution except where the binary sum falls short of it:
\* 0.35 + 0.05 is 0.39999999999999997 (kept as 0.39999, below the MEDIUM
\* cut and rounded to 0.4), and adding 0.1 to that gives 0.5 again.
FloatAdd(a, b) ==
    IF a = (35 * Scale) \div 100 /\ b = (5 * Scale) \div 100 THEN a + b - 1
    ELSE IF a = (40 * Scale) \div 100 - 1 THEN a + b + 1
    ELSE a + b

\* One rule of calculate_rule_based_score: the addend and the factor text.
RuleDelinquency(features) ==
    IF features.delinquency_90_plus_days > (10 * Scale) \div 100
    THEN << (30 * Scale) \div 100, "High 90+ day delinquency" >>
    ELSE IF features.delinquency_90_plus_days > (5 * Scale) \div 100
    THEN << (15 * Scale) \div 100, "Elevated 90+ day delinquency" >>
    ELSE << 0, "" >>

RuleFico(features) ==
    IF features.weighted_average_fico < 620
    THEN << (25 * Scale) \div 100, "Low FICO score" >>
    ELSE IF features.weighted_average_fico < 660
    THEN << (10 * Scale) \div 100, "Below average FICO score" >>
    ELSE << 0, "" >>

RuleLossRate(features) ==
    IF features.cumulative_loss_rate > (5 * Scale) \div 100
    THEN << (25 * Scale) \div 100, "High cumulative loss rate" >>
    ELSE IF features.cumulative_loss_rate > (2 * Scale) \div 100
    THEN << (10 * Scale) \div 100, "Elevated cumulative loss rate" >>
    ELSE << 0, "" >>

RuleLtv(features) ==
    IF features.weighted_average_ltv > (90 * Scale) \div 100
    THEN << (15 * Scale) \div 100, "High LTV" >>
    ELSE IF features.weighted_average_ltv > (80 * Scale) \div 100
    THEN << (5 * Scale) \div 100, "Elevated LTV" >>
    ELSE << 0, "" >>

RuleDepletion(features) ==
    IF features.pool_balance_ratio < (20 * Scale) \div 100
        /\ features.months_since_origination < 24
    THEN << (10 * Scale) \div 100, "Rapid pool depletion" >>
    ELSE << 0, "" >>

\* Lines 110-150: the rules in the order the code applies them.
Rules(features) ==
    << RuleDelinquency(features), RuleFico(features), RuleLossRate(features),
       RuleLtv(features), RuleDepletion(features) >>

\* risk_score after the first n rules (a rule that adds nothing is skipped).
RECURSIVE RuleSum(_, _)
RuleSum(rules, n) ==
    IF n = 0 THEN 0
    ELSE IF rules[n][1] = 0 THEN RuleSum(rules, n - 1)
    ELSE FloatAdd(RuleSum(rules, n - 1), rules[n][1])

\* risk_factors: the texts of the rules that fired, in order.
RuleFactors(rules) == SelectSeq([n \in 1..Len(rules) |-> rules[n][2]], LAMBDA t : t /= "")

Min(a, b) == IF a < b THEN a ELSE b

\* calculate_rule_based_score (lines 101-160)
CalculateRuleBasedScore(features) ==
    LET risk_score == Min(RuleSum(Rules(features), 5), Scale)
    IN [risk_score |-> Round4(risk_score),
        risk_level |-> CategorizeRisk(risk_score),
        risk_factors |-> RuleFactors(Rules(features)),
        scoring_method |-> "rule_based"]

\* _interpret_ml_score (lines 227-241)
InterpretMlScore(features) ==
    SelectSeq(
        << IF features.delinquency_90_plus_days > (5 * Scale) \div 100
           THEN "High delinquency" ELSE "",
           IF features.weighted_average_fico < 660 THEN "Low FICO" ELSE "",
           IF features.cumulative_loss_rate > (2 * Scale) \div 100
           THEN "High loss rate" ELSE "" >>,
        LAMBDA t : t /= "")

\* Lines 201-206: the result built from the endpoint's prediction.
MlResult(features, risk_score) ==
    [risk_score |-> Round4(risk_score),
     risk_level |-> CategorizeRisk(risk_score),
     risk_factors |-> InterpretMlScore(features),
     scoring_method |-> "ml_model"]

\* What invoking the endpoint does: "raises" (invoke_endpoint raises),
\* "garbage" (the body is not JSON or has no predictions[0][0] that float()
\* accepts), or it answers with a prediction: -0.1, 0.3, 0.59996, 0.74994,
\* 0.74996, 0.75, 0.9 or 1.2.
Predictions ==
    {0 - Scale \div 10, (30 * Scale) \div 100, (60 * Scale) \div 100 - 4,
     (75 * Scale) \div 100 - 6, (75 * Scale) \div 100 - 4,
     (75 * Scale) \div 100, (90 * Scale) \div 100, (120 * Scale) \div 100}

EndpointOutcomes ==
    [kind : {"raises", "garbage"}, prediction : {0}]
        \cup [kind : {"answers"}, prediction : Predictions]

NoRiskResult ==
    [risk_score |-> 0, risk_level |-> "", risk_factors |-> << >>, scoring_method |-> ""]

\* One entry of event['Records']: "unreadable" (get_object raises, or the
\* object or the body is not JSON) or a filing.
ScorerRecords ==
    [kind : {"unreadable"}, filing_data : {None}]
        \cup [kind : {"filing"}, filing_data : {Some(f) : f \in ScoredFilings}]

NoEndpointOutcome == [kind |-> "", prediction |-> 0]

NoScorerFrame ==
    [pc |-> "idle", index |-> 0, n_records |-> 0, filing_data |-> None,
     features |-> None, endpoint |-> NoEndpointOutcome, risk_result |-> NoRiskResult,
     put_events |-> "", processed_count |-> 0, high_risk_count |-> 0]

NoScorerResponse == [statusCode |-> 0, processed_count |-> 0, high_risk_count |-> 0]

\* ------------------------------------------------------------------------
\* AgentCoordinator (agent_coordinator.py)
\* ------------------------------------------------------------------------
\* The largest number of orchestrate_multi_agent calls in a run, and the
\* largest number of them in which a service call (DynamoDB, Bedrock) fails.
MaxTurns == 52
MaxFailures == 1

\* Line 335: history[-50:]
HistoryLimit == 50

\* Fault: history[:50], the oldest turns are kept.
KeptTurnsOldest(history) ==
    SubSeq(history, 1, Min(Len(history), HistoryLimit))

\* Line 335: history = history[-50:]
KeptTurns(history) ==
    IF Len(history) <= HistoryLimit THEN history
    ELSE SubSeq(history, Len(history) - HistoryLimit + 1, Len(history))

\* Lines 328-332: the turn appended to the history.
Turn(timestamp, user_query, agent_response) ==
    [timestamp |-> timestamp, user |-> user_query, assistant |-> agent_response]

\* Lines 303-312, _load_conversation: the stored history ([] when the table
\* has no item for the session), or [] when get_item raises.
LoadConversation(table, loaded) == IF loaded /\ ~IsNone(table) THEN Get(table) ELSE << >>

NoCoordinatorFrame ==
    [pc |-> "idle", user_query |-> 0, conversation_history |-> << >>,
     final_response |-> "", timestamp |-> 0, history |-> << >>]

NoCoordinatorResult == [status |-> "none", query |-> 0, final_response |-> ""]

\* ------------------------------------------------------------------------
\* AlertHandler (src/src/lambda/alert_handler.py)
\* ------------------------------------------------------------------------
\* The largest number of records in a batch of alerts.
MaxAlerts == 2

\* The events lambda_handler is invoked with: one with a 'detail' entry, or a
\* batch with n 'Records'; and the environment of the function: whether
\* ALERT_TABLE and SNS_TOPIC_ARN are set (lines 22-23).
AlertEvents ==
    [mode : {"single"}, n : {1}, table : BOOLEAN, topic : BOOLEAN]
        \cup [mode : {"batch"}, n : 0..MaxAlerts, table : BOOLEAN, topic : BOOLEAN]

\* An event detail: "unparseable" (a record body that is not JSON),
\* "malformed" (not a dict: .get raises AttributeError), or a dict, whose
\* risk_score is a number or missing (None).
AlertDetails ==
    [kind : {"unparseable", "malformed"}, risk_score : {None}]
        \cup [kind : {"dict"}, risk_score : {None, Some((85 * Scale) \div 100)}]

\* _format_alert_message and _format_alert_email (lines 132-228) raise
\* TypeError formatting a risk_score of None with :.4f.
FormatRaises(alert_record) == IsNone(alert_record.risk_score)

\* Lines 53-64: the alert record; the alerts of an invocation are numbered.
AlertRecord(alert_id, detail) ==
    [alert_id |-> alert_id, risk_score |-> detail.risk_score, status |-> "NEW"]

NoAlertRecord == [alert_id |-> 0, risk_score |-> None, status |-> ""]

NoAlertFrame ==
    [pc |-> "idle", mode |-> "", n |-> 0, table |-> FALSE, topic |-> FALSE,
     index |-> 0, detail_kind |-> "", alert_record |-> NoAlertRecord, alerts |-> << >>,
     store_failed |-> FALSE, notify_failed |-> FALSE, bad_input |-> FALSE]

NoAlertResponse == [statusCode |-> 0, alert_ids |-> << >>]

\* ------------------------------------------------------------------------
\* State
\* ------------------------------------------------------------------------
VARIABLES
    est,        \* est[i]: the estimator bound to the caller's name i (None: unbound)
    pc,         \* line of malp.py the running call is at; "idle" between calls
    self,       \* the estimator the running call was made on
    X, y,       \* the caller's arrays handed to the running (or last) call
    loc,        \* the local variables of the running fit
    result,     \* how the last call ended
    np_random,  \* seed of numpy's global generator (None: never seeded)
    trained,    \* history: per estimator, the data of its last fit that returned
    rounds,     \* history: per estimator, agreement rounds of its last fit
    stopped,    \* history: per estimator, how that fit left the loop
    fit_history, \* history: per estimator, "never" called, all calls "failed", or "fitted"
    loader,     \* the ABSDataLoader object
    ld,         \* the running call on the loader: its line, arguments and locals
    ld_result,  \* how the last call on the loader ended
    nz,         \* the running lambda_handler invocation: its line and locals
    response,   \* what the last lambda_handler invocation returned
    dynamo_table,    \* filing ids of the items put into the DynamoDB table
    processed_bucket, \* keys of the objects put into the processed bucket
    sc,         \* the running invocation of the risk scorer: its line and locals
    scorer_response, \* what the last invocation of the risk scorer returned
    risk_table, \* filing ids of the items the invocation put into the risk table
    event_bus,  \* the entries the invocation put on the EventBridge bus
    co,         \* the running orchestrate_multi_agent call: its line and locals
    co_result,  \* how the last orchestrate_multi_agent call ended
    conversation_table, \* the session's item of the conversation table: its history
    clock,      \* datetime.utcnow(), advanced by every call
    turns,      \* history: query and final response of every call that returned
    clean,      \* history: every load and save of the session has succeeded
    failures,   \* history: the number of service calls that failed
    ah,         \* the running invocation of the alert handler: its line and locals
    alert_response, \* what the last invocation of the alert handler returned
    alert_table,    \* alert ids of the records the invocation put into the alert table
    sns_sent,       \* alert ids the invocation published to the SNS topic
    emails_sent     \* alert ids the invocation sent by e-mail

malp_vars == << est, pc, self, X, y, loc, result, np_random, trained, rounds, stopped,
               fit_history >>
loader_vars == << loader, ld, ld_result >>
normalizer_vars == << nz, response, dynamo_table, processed_bucket >>
scorer_vars == << sc, scorer_response, risk_table, event_bus >>
coordinator_vars == << co, co_result, conversation_table, clock, turns, clean, failures >>
alert_vars == << ah, alert_response, alert_table, sns_sent, emails_sent >>

vars == << malp_vars, loader_vars, normalizer_vars, scorer_vars, coordinator_vars,
          alert_vars >>

\* What the calls on one component leave alone.
not_malp_vars == << loader_vars, normalizer_vars, scorer_vars, coordinator_vars, alert_vars >>
not_loader_vars == << malp_vars, normalizer_vars, scorer_vars, coordinator_vars, alert_vars >>
not_normalizer_vars == << malp_vars, loader_vars, scorer_vars, coordinator_vars, alert_vars >>
not_scorer_vars == << malp_vars, loader_vars, normalizer_vars, coordinator_vars, alert_vars >>
not_coordinator_vars == << malp_vars, loader_vars, normalizer_vars, scorer_vars, alert_vars >>
not_alert_vars == << malp_vars, loader_vars, normalizer_vars, scorer_vars, coordinator_vars >>

Names == {1, 2}

\* Fixed inside fit (malp.py lines 72-73), not read from the estimator.
max_iter == 10
tolerance == Scale \div 10000
\* get_feature_importance's cut-off (malp.py line 142): 1e-3
importance_threshold == Scale \div 1000

NoFrame ==
    [k |-> 0, iteration |-> 0, old_coeffs |-> << >>, new_coeffs |-> << >>,
     avg_prediction |-> << >>, new_models |-> << >>]

NoResult ==
    [op |-> "none", inst |-> 0, status |-> "none", exc |-> "", value |-> << >>,
     kwargs |-> NoKwargs]
Returned(op, i, v) ==
    [op |-> op, inst |-> i, status |-> "ok", exc |-> "", value |-> v, kwargs |-> NoKwargs]
Raised(op, i, e) ==
    [op |-> op, inst |-> i, status |-> "raise", exc |-> e, value |-> << >>,
     kwargs |-> NoKwargs]

\* Fault: __init__ presets the agreement vector to an empty array.
NewEstimatorPreset(n, a, rs) ==
    [n_models |-> n, alpha |-> a, l1_ratio |-> Scale \div 2, random_state |-> rs,
     models_ |-> << >>, agreement_vector |-> Some(<< >>), final_model_ |-> None]

\* __init__ (lines 32-37): the attributes a new estimator has.  final_model_
\* is not among them: it exists only once fit has reached line 103.
NewEstimator(n, a, rs) ==
    [n_models |-> n, alpha |-> a, l1_ratio |-> Scale \div 2, random_state |-> rs,
     models_ |-> << >>, agreement_vector |-> None, final_model_ |-> None]

Init ==
    /\ est = [i \in Names |-> None]
    /\ pc = "idle"
    /\ self = 0
    /\ X = Arr1(<< >>)
    /\ y = << >>
    /\ loc = NoFrame
    /\ result = NoResult
    /\ np_random = None
    /\ trained = [i \in Names |-> None]
    /\ rounds = [i \in Names |-> 0]
    /\ stopped = [i \in Names |-> "none"]
    /\ fit_history = [i \in Names |-> "never"]
    /\ loader = NewLoader
    /\ ld = NoLoaderFrame
    /\ ld_result = NoLoaderResult
    /\ nz = NoHandlerFrame
    /\ response = NoResponse
    /\ dynamo_table = {}
    /\ processed_bucket = {}
    /\ sc = NoScorerFrame
    /\ scorer_response = NoScorerResponse
    /\ risk_table = {}
    /\ event_bus = << >>
    /\ co = NoCoordinatorFrame
    /\ co_result = NoCoordinatorResult
    /\ conversation_table = None
    /\ clock = 0
    /\ turns = << >>
    /\ clean = TRUE
    /\ failures = 0
    /\ ah = NoAlertFrame
    /\ alert_response = NoAlertResponse
    /\ alert_table = {}
    /\ sns_sent = {}
    /\ emails_sent = {}

Me == Get(est[self])
SetMe(e) == [est EXCEPT ![self] = Some(e)]

\* Fault: the members' coefficients are added up, not averaged.
GetAvgCoeffsSummed(models) ==
    [j \in 1..Len(models[1].coef_) |-> SumSeq([m \in 1..Len(models) |-> models[m].coef_[j]])]

\* _get_avg_coeffs (lines 110-113)
GetAvgCoeffs(models) == MeanAxis0([m \in 1..Len(models) |-> models[m].coef_])

\* ------------------------------------------------------------------------
\* __init__ (lines 17-40)
\* ------------------------------------------------------------------------
\* Fault: __init__ takes **kwargs and drops what it does not know.
CtorAcceptsAnyKeyword(kw) == FALSE

\* The signature names n_models, alpha, l1_ratio and random_state only, so a
\* call passing any other keyword raises TypeError before the body runs.
CtorRejects(kw) == ~IsNone(kw.max_iterations) \/ ~IsNone(kw.tolerance)

\* Fault: the constructor seeds in every case, with 0 for random_state=None.
SeedAlways(seed, rs) == IF IsNone(rs) THEN Some(0) ELSE rs

\* Lines 39-40: an integer random_state reseeds numpy's global generator.
SeedAfterInit(seed, rs) == IF IsNone(rs) THEN seed ELSE rs

Construct(i, n, a, rs, kw) ==
    /\ pc = "idle"
    /\ IF CtorRejects(kw)
       THEN /\ result' = [Raised("__init__", i, "TypeError") EXCEPT !.kwargs = kw]
            /\ UNCHANGED << est, np_random, trained, rounds, stopped, fit_history >>
       ELSE /\ est' = [est EXCEPT ![i] = Some(NewEstimator(n, a, rs))]
            /\ np_random' = SeedAfterInit(np_random, rs)
            /\ trained' = [trained EXCEPT ![i] = None]
            /\ rounds' = [rounds EXCEPT ![i] = 0]
            /\ stopped' = [stopped EXCEPT ![i] = "none"]
            /\ fit_history' = [fit_history EXCEPT ![i] = "never"]
            /\ result' = [Returned("__init__", i, << >>) EXCEPT !.kwargs = kw]
    /\ UNCHANGED << pc, self, X, y, loc >>
    /\ UNCHANGED not_malp_vars

\* ------------------------------------------------------------------------
\* fit (lines 42-108), one action per statement the claims tell apart
\* ------------------------------------------------------------------------
Raise(op, e) ==
    /\ pc' = "idle"
    /\ loc' = NoFrame
    /\ result' = Raised(op, self, e)

\* A fit call that raises: recorded unless an earlier call had returned.
HistoryAfterRaise(h) == IF h = "fitted" THEN "fitted" ELSE "failed"

RaiseInFit(e) ==
    /\ Raise("fit", e)
    /\ fit_history' = [fit_history EXCEPT ![self] = HistoryAfterRaise(@)]

\* The caller evaluates est[i].fit(d.X, d.y).
FitCall(i, d) ==
    /\ pc = "idle"
    /\ ~IsNone(est[i])
    /\ pc' = "L54"
    /\ self' = i
    /\ X' = d.X
    /\ y' = d.y
    /\ loc' = NoFrame
    /\ rounds' = [rounds EXCEPT ![i] = 0]
    /\ stopped' = [stopped EXCEPT ![i] = "none"]
    /\ UNCHANGED << est, result, np_random, trained, fit_history >>
    /\ UNCHANGED not_malp_vars

\* Line 54: n_samples, n_features = X.shape
FitShape ==
    /\ pc = "L54"
    /\ IF X.ndim # 2
       THEN RaiseInFit("ValueError")
       ELSE pc' = "L57" /\ UNCHANGED << loc, result, fit_history >>
    /\ UNCHANGED << est, self, X, y, np_random, trained, rounds, stopped >>
    /\ UNCHANGED not_malp_vars

\* Fault: line 57 missing, the members of the previous fit stay in the list.
ModelsKept(models) == models

\* Line 57: self.models_ = []
ModelsAfterReset(models) == << >>

\* Fault: the agreement vector is cleared along with the members.
AgreementCleared(agreement) == None

\* Line 57 resets models_ only: the agreement vector of an earlier fit stays
\* until line 100 replaces it.
AgreementAfterReset(agreement) == agreement

\* Fault: fit starts by deleting the final model of the fit before.
FinalModelDropped(final_model) == None

\* Line 57 does not touch final_model_ either.
FinalModelAfterReset(final_model) == final_model

FitResetModels ==
    /\ pc = "L57"
    /\ est' = SetMe([Me EXCEPT !.models_ = ModelsAfterReset(Me.models_),
                               !.agreement_vector = AgreementAfterReset(@),
                               !.final_model_ = FinalModelAfterReset(@)])
    /\ loc' = [loc EXCEPT !.k = 0]
    /\ pc' = "L58"
    /\ UNCHANGED << self, X, y, result, np_random, trained, rounds, stopped, fit_history >>
    /\ UNCHANGED not_malp_vars

\* Fault: alpha is not passed on, the members get Ridge's default alpha=1.0.
MemberAlphaDefault(alpha, k) == 1 + 0 * k

\* Fault: the members are regularised differently, member k by alpha + k.
MemberAlphaStaggered(alpha, k) == alpha + k

\* Lines 60 and 87: every member is a Ridge(alpha=self.alpha, ...).
MemberAlpha(alpha, k) == alpha

\* Lines 58-66, one pass of the loop body: fit member k on (X, y).
FitInitMember ==
    /\ pc = "L58"
    /\ loc.k < Me.n_models
    /\ IF RidgeFitRaises(X, y)
       THEN /\ RaiseInFit("ValueError")
            /\ UNCHANGED << est, X, y >>
       ELSE /\ est' = SetMe([Me EXCEPT !.models_ =
                               Append(@, RidgeFit(X, y, MemberAlpha(Me.alpha, loc.k)))])
            /\ X' = XAfterRidge(X)
            /\ y' = YAfterRidge(y)
            /\ loc' = [loc EXCEPT !.k = @ + 1]
            /\ UNCHANGED << pc, result, fit_history >>
    /\ UNCHANGED << self, np_random, trained, rounds, stopped >>
    /\ UNCHANGED not_malp_vars

\* Line 58, range(self.n_models) exhausted; lines 72-73 bind the constants.
\* loc.iteration is the index range(max_iter) handed out last, -1 before the
\* first.
FitInitDone ==
    /\ pc = "L58"
    /\ loc.k >= Me.n_models
    /\ pc' = "L75"
    /\ loc' = [loc EXCEPT !.iteration = -1]
    /\ UNCHANGED << est, self, X, y, result, np_random, trained, rounds, stopped, fit_history >>
    /\ UNCHANGED not_malp_vars

\* Fault: the loop runs until the tolerance test stops it.
LoopNeverEnds(it) == TRUE

\* Line 75: range(max_iter) has another index after `it`.
LoopHasNext(it) == it + 1 < max_iter

\* Line 75: for iteration in range(max_iter)
FitLoopHead ==
    /\ pc = "L75"
    /\ IF LoopHasNext(loc.iteration)
       THEN /\ loc' = [loc EXCEPT !.iteration = @ + 1]
            /\ pc' = "L76"
            /\ UNCHANGED stopped
       ELSE /\ pc' = "L100"
            /\ stopped' = [stopped EXCEPT ![self] = "budget"]
            /\ UNCHANGED loc
    /\ UNCHANGED << est, self, X, y, result, np_random, trained, rounds, fit_history >>
    /\ UNCHANGED not_malp_vars

\* Lines 79-80: the mean over the members of their predictions on X.
AvgPrediction(models, Xm) ==
    MeanAxis0([m \in 1..Len(models) |-> RidgePredict(models[m], Xm)])

\* Lines 76-85: old_coeffs, avg_prediction, new_models = []
FitRoundBegin ==
    /\ pc = "L76"
    /\ loc' = [loc EXCEPT !.old_coeffs = GetAvgCoeffs(Me.models_),
                          !.avg_prediction = AvgPrediction(Me.models_, X),
                          !.new_models = << >>,
                          !.k = 0]
    /\ X' = XAfterRidge(X)
    /\ pc' = "L86"
    /\ UNCHANGED << est, self, y, result, np_random, trained, rounds, stopped, fit_history >>
    /\ UNCHANGED not_malp_vars

\* Fault: the refit uses the caller's y, as the initial fit of line 65 does.
RefitOnOriginal(avg, yorig) == yorig

\* The target the members of a round are refit against (line 89).
RefitTarget(avg, yorig) == avg

\* Lines 86-90, one pass of the loop body: a new member fit on the consensus.
FitRefitMember ==
    /\ pc = "L86"
    /\ loc.k < Me.n_models
    /\ loc' = [loc EXCEPT
                 !.new_models = Append(@, RidgeFit(X, RefitTarget(loc.avg_prediction, y),
                                                   MemberAlpha(Me.alpha, loc.k))),
                 !.k = @ + 1]
    /\ X' = XAfterRidge(X)
    /\ UNCHANGED << est, pc, self, y, result, np_random, trained, rounds, stopped, fit_history >>
    /\ UNCHANGED not_malp_vars

\* Fault: the new members are added to the list instead of replacing it.
ModelsExtended(models, new_models) == models \o new_models

\* Line 92: self.models_ = new_models
ModelsAfterRound(models, new_models) == new_models

\* Line 86, range exhausted; lines 92-93: swap in the new members, average.
FitRoundEnd ==
    /\ pc = "L86"
    /\ loc.k >= Me.n_models
    /\ est' = SetMe([Me EXCEPT !.models_ = ModelsAfterRound(@, loc.new_models)])
    /\ loc' = [loc EXCEPT !.new_coeffs = GetAvgCoeffs(loc.new_models)]
    /\ rounds' = [rounds EXCEPT ![self] = @ + 1]
    /\ pc' = "L96"
    /\ UNCHANGED << self, X, y, result, np_random, trained, stopped, fit_history >>
    /\ UNCHANGED not_malp_vars

\* np.linalg.norm(a - b) < tol, compared on the squares (no square root of a
\* fixed-point number is taken).
NormBelow(a, b, tol) ==
    /\ \A j \in 1..Len(a) : Abs(a[j] - b[j]) < tol
    /\ SumSeq([j \in 1..Len(a) |-> (a[j] - b[j]) * (a[j] - b[j])]) < tol * tol

\* Fault: the test is written <=, a movement equal to the tolerance stops too.
ConvergedInclusive(new, old) ==
    /\ \A j \in 1..Len(new) : Abs(new[j] - old[j]) <= tolerance
    /\ SumSeq([j \in 1..Len(new) |-> (new[j] - old[j]) * (new[j] - old[j])])
          <= tolerance * tolerance

\* Line 96: the convergence test.
Converged(new, old) == NormBelow(new, old, tolerance)

\* Lines 96-97: if ...: break
FitConvergenceCheck ==
    /\ pc = "L96"
    /\ IF Converged(loc.new_coeffs, loc.old_coeffs)
       THEN /\ pc' = "L100"
            /\ stopped' = [stopped EXCEPT ![self] = "tolerance"]
       ELSE /\ pc' = "L75"
            /\ UNCHANGED stopped
    /\ UNCHANGED << est, self, X, y, loc, result, np_random, trained, rounds, fit_history >>
    /\ UNCHANGED not_malp_vars

\* Fault: an agreement vector that is already set is kept.
AgreementKeptIfSet(agreement, new_coeffs) ==
    IF IsNone(agreement) THEN Some(new_coeffs) ELSE agreement

\* The agreement vector after line 100, whatever it was before.
AgreementStored(agreement, new_coeffs) == Some(new_coeffs)

\* Line 100: self._agreement_vector = new_coeffs
FitStoreAgreement ==
    /\ pc = "L100"
    /\ est' = SetMe([Me EXCEPT !.agreement_vector = AgreementStored(@, loc.new_coeffs)])
    /\ pc' = "L103"
    /\ UNCHANGED << self, X, y, loc, result, np_random, trained, rounds, stopped, fit_history >>
    /\ UNCHANGED not_malp_vars

\* Line 103: self.final_model_ = Ridge(...)
FitNewFinal ==
    /\ pc = "L103"
    /\ est' = SetMe([Me EXCEPT !.final_model_ = Some(RidgeNew)])
    /\ pc' = "L104"
    /\ UNCHANGED << self, X, y, loc, result, np_random, trained, rounds, stopped, fit_history >>
    /\ UNCHANGED not_malp_vars

\* Line 104: self.final_model_.fit(X, y)
FitFinalFit ==
    /\ pc = "L104"
    /\ IF RidgeFitRaises(X, y)
       THEN /\ RaiseInFit("ValueError")
            /\ UNCHANGED << est, X, y >>
       ELSE /\ est' = SetMe([Me EXCEPT !.final_model_ = Some(RidgeFit(X, y, Me.alpha))])
            /\ X' = XAfterRidge(X)
            /\ y' = YAfterRidge(y)
            /\ pc' = "L105"
            /\ UNCHANGED << loc, result, fit_history >>
    /\ UNCHANGED << self, np_random, trained, rounds, stopped >>
    /\ UNCHANGED not_malp_vars

\* Fault: line 105 missing, the final model keeps its own fit on (X, y).
FinalCoefOwn(agreement, own) == own

\* The coefficient vector the final model ends up with (line 105).
FinalCoef(agreement, own) == agreement

\* Line 105: self.final_model_.coef_ = self._agreement_vector
FitOverrideCoef ==
    /\ pc = "L105"
    /\ est' = SetMe([Me EXCEPT !.final_model_ =
                       Some([Get(Me.final_model_) EXCEPT
                               !.coef_ = FinalCoef(Get(Me.agreement_vector), @)])])
    /\ pc' = "L106"
    /\ UNCHANGED << self, X, y, loc, result, np_random, trained, rounds, stopped, fit_history >>
    /\ UNCHANGED not_malp_vars

\* Line 106: the mean of the members' intercepts.
MeanIntercept(models) == Mean([m \in 1..Len(models) |-> models[m].intercept_])

\* Fault: line 106 missing, the final model keeps the intercept of its own
\* fit on (X, y).
FinalInterceptOwn(mean, own) == own

\* The intercept the final model ends up with (line 106).
FinalIntercept(mean, own) == mean

FitOverrideIntercept ==
    /\ pc = "L106"
    /\ est' = SetMe([Me EXCEPT !.final_model_ =
                       Some([Get(Me.final_model_) EXCEPT
                               !.intercept_ = FinalIntercept(MeanIntercept(Me.models_), @)])])
    /\ pc' = "L108"
    /\ UNCHANGED << self, X, y, loc, result, np_random, trained, rounds, stopped, fit_history >>
    /\ UNCHANGED not_malp_vars

\* Line 108: return self
FitReturn ==
    /\ pc = "L108"
    /\ pc' = "idle"
    /\ loc' = NoFrame
    /\ result' = Returned("fit", self, << >>)
    /\ trained' = [trained EXCEPT ![self] = Some([X |-> X, y |-> y])]
    /\ fit_history' = [fit_history EXCEPT ![self] = "fitted"]
    /\ UNCHANGED << est, self, X, y, np_random, rounds, stopped >>
    /\ UNCHANGED not_malp_vars

\* ------------------------------------------------------------------------
\* predict (lines 115-128)
\* ------------------------------------------------------------------------
PredictCall(i, Xn) ==
    /\ pc = "idle"
    /\ ~IsNone(est[i])
    /\ pc' = "L125"
    /\ self' = i
    /\ X' = Xn
    /\ UNCHANGED << est, y, loc, result, np_random, trained, rounds, stopped, fit_history >>
    /\ UNCHANGED not_malp_vars

\* Faults of the guard of line 125: dropped, and testing a name never set.
HasFinalModelAlways(e) == TRUE
HasFinalModelTypo(e) == FALSE

\* Line 125: hasattr(self, 'final_model_')
HasFinalModel(e) == ~IsNone(e.final_model_)

\* Lines 125-126
PredictGuard ==
    /\ pc = "L125"
    /\ IF HasFinalModel(Me)
       THEN pc' = "L128" /\ UNCHANGED << loc, result >>
       ELSE Raise("predict", "NotFitted")
    /\ UNCHANGED << est, self, X, y, np_random, trained, rounds, stopped, fit_history >>
    /\ UNCHANGED not_malp_vars

\* Line 128: return self.final_model_.predict(X)
PredictReturn ==
    /\ pc = "L128"
    /\ IF IsNone(Me.final_model_)
       THEN \* self.final_model_ does not exist
            /\ Raise("predict", "AttributeError")
            /\ UNCHANGED X
       ELSE IF ~Get(Me.final_model_).fitted \/ RidgePredictRaises(Get(Me.final_model_), X)
       THEN /\ Raise("predict", "ValueError")
            /\ UNCHANGED X
       ELSE /\ pc' = "idle"
            /\ result' = Returned("predict", self, RidgePredict(Get(Me.final_model_), X))
            /\ X' = XAfterRidge(X)
            /\ UNCHANGED loc
    /\ UNCHANGED << est, self, y, np_random, trained, rounds, stopped, fit_history >>
    /\ UNCHANGED not_malp_vars

\* ------------------------------------------------------------------------
\* get_feature_importance (lines 130-150)
\* ------------------------------------------------------------------------
GfiCall(i) ==
    /\ pc = "idle"
    /\ ~IsNone(est[i])
    /\ pc' = "L137"
    /\ self' = i
    /\ UNCHANGED << est, X, y, loc, result, np_random, trained, rounds, stopped, fit_history >>
    /\ UNCHANGED not_malp_vars

\* Lines 137-138
GfiGuard ==
    /\ pc = "L137"
    /\ IF IsNone(Me.agreement_vector)
       THEN Raise("get_feature_importance", "NotFitted")
       ELSE pc' = "L141" /\ UNCHANGED << loc, result >>
    /\ UNCHANGED << est, self, X, y, np_random, trained, rounds, stopped, fit_history >>
    /\ UNCHANGED not_malp_vars

\* Fault: >= in place of >.
IsImportantInclusive(c) == Abs(c) >= Scale \div 1000

\* Line 142: the test np.where applies to each coefficient.
IsImportant(c) == Abs(c) > importance_threshold

\* Line 142: np.where(...)[0], the 0-based indices that pass, ascending.
RECURSIVE WhereImportant(_, _)
WhereImportant(coeffs, j) ==
    IF j > Len(coeffs) THEN << >>
    ELSE (IF IsImportant(coeffs[j]) THEN << j - 1 >> ELSE << >>)
             \o WhereImportant(coeffs, j + 1)

\* Line 145: f"Feature {i}"
FeatureName(i) == << "Feature", i >>

\* Lines 141-150
FeatureImportance(coeffs) ==
    LET feature_indices == WhereImportant(coeffs, 1)
        feature_names == [j \in 1..Len(coeffs) |-> FeatureName(j - 1)]
    IN  [features |-> [t \in 1..Len(feature_indices) |->
                          feature_names[feature_indices[t] + 1]],
         coeffs   |-> [t \in 1..Len(feature_indices) |->
                          coeffs[feature_indices[t] + 1]]]

GfiReturn ==
    /\ pc = "L141"
    /\ IF IsNone(Me.agreement_vector)
       THEN \* np.abs(None)
            Raise("get_feature_importance", "TypeError")
       ELSE /\ pc' = "idle"
            /\ result' = Returned("get_feature_importance", self,
                                  FeatureImportance(Get(Me.agreement_vector)))
            /\ UNCHANGED loc
    /\ UNCHANGED << est, self, X, y, np_random, trained, rounds, stopped, fit_history >>
    /\ UNCHANGED not_malp_vars

\* ------------------------------------------------------------------------
\* ABSDataLoader: get_mock_filings_by_asset_class (lines 112-135),
\* get_mock_filings_by_cik (lines 99-110), _get_mock_filings (lines 22-43)
\* ------------------------------------------------------------------------
LoaderReturned(f) ==
    [op |-> f.op, status |-> "ok", exc |-> "", value |-> f.filings,
     asset_class |-> f.asset_class, cik |-> f.cik, count |-> f.count,
     listed |-> f.listed, generated |-> f.generated]
LoaderRaised(f, e) ==
    [op |-> f.op, status |-> "raise", exc |-> e, value |-> << >>,
     asset_class |-> f.asset_class, cik |-> f.cik, count |-> f.count,
     listed |-> f.listed, generated |-> f.generated]

\* asset_class in self.asset_classes (line 123)
IsListed(classes, asset_class) == \E k \in 1..Len(classes) : classes[k] = asset_class

\* The caller evaluates loader.get_mock_filings_by_asset_class(asset_class, count).
GetByAssetClassCall(asset_class, count) ==
    /\ ld.pc = "idle"
    /\ ld' = [NoLoaderFrame EXCEPT !.pc = "L123",
                                   !.op = "get_mock_filings_by_asset_class",
                                   !.asset_class = asset_class,
                                   !.count = count,
                                   !.listed = IsListed(loader.asset_classes, asset_class)]
    /\ ld_result' = NoLoaderResult
    /\ UNCHANGED loader
    /\ UNCHANGED not_loader_vars

\* Lines 123-124: the request for a class not in the list raises.
CheckAssetClass ==
    /\ ld.pc = "L123"
    /\ IF IsListed(loader.asset_classes, ld.asset_class)
       THEN /\ ld' = [ld EXCEPT !.pc = "L127"]
            /\ UNCHANGED ld_result
       ELSE /\ ld' = NoLoaderFrame
            /\ ld_result' = LoaderRaised(ld, "ValueError")
    /\ UNCHANGED loader
    /\ UNCHANGED not_loader_vars

\* Fault: line 128 missing, the generator keeps choosing among all classes.
ClassesNotNarrowed(classes, asset_class) == classes

\* Line 128: self.asset_classes = [asset_class]
NarrowedClasses(classes, asset_class) == << asset_class >>

\* Lines 127-130: remember the list, narrow it, call _get_mock_filings(count=count)
\* (line 33: filings = []).
NarrowClasses ==
    /\ ld.pc = "L127"
    /\ ld' = [ld EXCEPT !.original_asset_classes = loader.asset_classes,
                        !.filings = << >>,
                        !.pc = "L35"]
    /\ loader' = [loader EXCEPT !.asset_classes = NarrowedClasses(@, ld.asset_class)]
    /\ UNCHANGED ld_result
    /\ UNCHANGED not_loader_vars

\* The caller evaluates loader.get_mock_filings_by_cik(cik, count): line 110
\* calls _get_mock_filings(cik=cik, count=count).
GetByCikCall(cik, count) ==
    /\ ld.pc = "idle"
    /\ ld' = [NoLoaderFrame EXCEPT !.pc = "L35",
                                   !.op = "get_mock_filings_by_cik",
                                   !.cik = cik,
                                   !.count = count]
    /\ ld_result' = NoLoaderResult
    /\ UNCHANGED loader
    /\ UNCHANGED not_loader_vars

\* Line 37: cik if cik else a random seven-digit one
FilingCik(cik, drawn) == IF Len(cik) # 0 THEN cik ELSE drawn

\* Lines 35-40, one pass of the loop body; _generate_single_filing draws the
\* asset class from self.asset_classes as it stands (line 55).
GenerateFiling ==
    /\ ld.pc = "L35"
    /\ Len(ld.filings) < ld.count
    /\ \E drawn \in RandomCiks, k \in 1..Len(loader.asset_classes),
          form \in FormTypes, series \in SeriesDraws :
          ld' = [ld EXCEPT
                   !.filings = Append(@, SingleFiling(FilingCik(ld.cik, drawn),
                                                      loader.asset_classes[k],
                                                      form, series)),
                   !.generated = @ + 1]
    /\ UNCHANGED << loader, ld_result >>
    /\ UNCHANGED not_loader_vars

\* Line 35, range(count) exhausted; lines 42-43: return filings, to the
\* caller or to line 130.
FilingsDone ==
    /\ ld.pc = "L35"
    /\ Len(ld.filings) >= ld.count
    /\ IF ld.op = "get_mock_filings_by_asset_class"
       THEN /\ ld' = [ld EXCEPT !.pc = "L133"]
            /\ UNCHANGED ld_result
       ELSE /\ ld' = NoLoaderFrame
            /\ ld_result' = LoaderReturned(ld)
    /\ UNCHANGED loader
    /\ UNCHANGED not_loader_vars

\* Line 133: self.asset_classes = original_asset_classes
RestoreClasses ==
    /\ ld.pc = "L133"
    /\ loader' = [loader EXCEPT !.asset_classes = ld.original_asset_classes]
    /\ ld' = [ld EXCEPT !.pc = "L135"]
    /\ UNCHANGED ld_result
    /\ UNCHANGED not_loader_vars

\* Line 135: return filings
ReturnFilings ==
    /\ ld.pc = "L135"
    /\ ld' = NoLoaderFrame
    /\ ld_result' = LoaderReturned(ld)
    /\ UNCHANGED loader
    /\ UNCHANGED not_loader_vars

\* ------------------------------------------------------------------------
\* filing_normalizer.lambda_handler (lines 213-295)
\* ------------------------------------------------------------------------
\* The runtime invokes lambda_handler(event, context); lines 219-221 set up
\* the normalizer, processed_count = 0 and errors = [].
HandlerCall(event) ==
    /\ nz.pc = "idle"
    /\ nz' = [NoHandlerFrame EXCEPT !.pc = "L225", !.event = event]
    /\ response' = NoResponse
    /\ UNCHANGED << dynamo_table, processed_bucket >>
    /\ UNCHANGED not_normalizer_vars

\* record.get('s3') is a non-empty dict
HasS3(record) == record.kind = "s3"
\* record.get('kinesis') is a non-empty dict
HasKinesis(record) == record.kind = "kinesis"

\* Lines 225 and 254: the first entry of event['Records'] alone decides how
\* all entries are read.  An empty list has no first entry, and an entry
\* that is no dict has no get: both leave the outer try for line 288.
Dispatch ==
    /\ nz.pc = "L225"
    /\ IF Len(nz.event) = 0
       THEN nz' = [nz EXCEPT !.pc = "L288", !.exc = "IndexError"]
       ELSE IF nz.event[1].kind = "string"
       THEN nz' = [nz EXCEPT !.pc = "L288", !.exc = "AttributeError"]
       ELSE IF HasS3(nz.event[1])
       THEN nz' = [nz EXCEPT !.pc = "L226", !.idx = 0]
       ELSE IF HasKinesis(nz.event[1])
       THEN nz' = [nz EXCEPT !.pc = "L255", !.idx = 0]
       ELSE nz' = [nz EXCEPT !.pc = "L280"]
    /\ UNCHANGED << response, dynamo_table, processed_bucket >>
    /\ UNCHANGED not_normalizer_vars

\* Line 228 assigns bucket, line 229 assigns key: each only if the lookups
\* on its right-hand side succeed.
BindsBucket(record) == record.kind = "s3" /\ ~IsNone(record.bucket)
BindsKey(record) == BindsBucket(record) /\ ~IsNone(record.key)

\* The exception a failed lookup of lines 228-229 (or 260) raises.
LookupError(record) == IF record.kind = "string" THEN "TypeError" ELSE "KeyError"

\* The exception the body of the inner try raises after the lookups, "" if
\* it runs to its end: get_object (line 234), json.loads (235),
\* save_to_dynamodb (241), save_to_s3 (244).
ServiceError(record) ==
    CASE record.outcome = "get_fails" -> "ClientError"
      [] record.outcome = "not_json" -> "JSONDecodeError"
      [] record.outcome = "dynamo_fails" -> "ClientError"
      [] record.outcome = "put_fails" -> "ClientError"
      [] OTHER -> ""

\* The table after save_to_dynamodb (lines 173-191) was reached and put_item
\* succeeded.
TableAfter(table, record, normalized) ==
    IF record.outcome \in { "ok", "put_fails" }
    THEN table \cup { normalized.filing_id }
    ELSE table

\* The processed bucket after save_to_s3 (lines 193-210) was reached and
\* put_object succeeded.
BucketAfter(bucket, record, normalized) ==
    IF record.outcome = "ok" THEN bucket \cup { ProcessedKey(normalized) } ELSE bucket

\* Lines 226-251, one pass of the loop over an S3 event: the inner try and
\* its handler.  The handler's message reads the local variable key, which
\* is the key of this record only if line 229 got to assign it; it is the
\* key of an earlier record otherwise, and unbound if no record has assigned
\* it yet: then the handler itself raises and the outer try is left.
S3Record ==
    /\ nz.pc = "L226"
    /\ nz.idx < Len(nz.event)
    /\ LET record     == nz.event[nz.idx + 1]
           bucket     == IF BindsBucket(record) THEN record.bucket ELSE nz.bucket
           key        == IF BindsKey(record) THEN record.key ELSE nz.key
           raised     == IF BindsKey(record) THEN ServiceError(record)
                         ELSE LookupError(record)
           normalized == NormalizeFiling(FilingData(Get(record.key)))
           begun      == [nz EXCEPT !.bucket = bucket, !.key = key,
                                    !.attempted = @ \cup { nz.idx + 1 }]
       IN  /\ IF raised = ""
              THEN nz' = [begun EXCEPT !.processed_count = @ + 1, !.idx = @ + 1]
              ELSE IF IsNone(key)
              THEN nz' = [begun EXCEPT !.pc = "L288", !.exc = "UnboundLocalError"]
              ELSE nz' = [begun EXCEPT
                            !.errors = Append(@, [key |-> Get(key), exc |-> raised]),
                            !.idx = @ + 1]
           /\ IF BindsKey(record)
              THEN /\ dynamo_table' = TableAfter(dynamo_table, record, normalized)
                   /\ processed_bucket' = BucketAfter(processed_bucket, record, normalized)
              ELSE UNCHANGED << dynamo_table, processed_bucket >>
    /\ UNCHANGED response
    /\ UNCHANGED not_normalizer_vars

\* Line 226, the records are exhausted.
S3Done ==
    /\ nz.pc = "L226"
    /\ nz.idx >= Len(nz.event)
    /\ nz' = [nz EXCEPT !.pc = "L280"]
    /\ UNCHANGED << response, dynamo_table, processed_bucket >>
    /\ UNCHANGED not_normalizer_vars

\* Lines 255-278, one pass of the loop over a Kinesis event; the handler's
\* message names no variable.
KinesisRecord ==
    /\ nz.pc = "L255"
    /\ nz.idx < Len(nz.event)
    /\ LET record     == nz.event[nz.idx + 1]
           raised     == IF HasKinesis(record) THEN ServiceError(record)
                         ELSE LookupError(record)
           normalized == NormalizeFiling(FilingData("kinesis"))
           begun      == [nz EXCEPT !.attempted = @ \cup { nz.idx + 1 }]
       IN  /\ IF raised = ""
              THEN nz' = [begun EXCEPT !.processed_count = @ + 1, !.idx = @ + 1]
              ELSE nz' = [begun EXCEPT
                            !.errors = Append(@, [key |-> "Kinesis record", exc |-> raised]),
                            !.idx = @ + 1]
           /\ IF HasKinesis(record)
              THEN /\ dynamo_table' = TableAfter(dynamo_table, record, normalized)
                   /\ processed_bucket' = BucketAfter(processed_bucket, record, normalized)
              ELSE UNCHANGED << dynamo_table, processed_bucket >>
    /\ UNCHANGED response
    /\ UNCHANGED not_normalizer_vars

\* Line 255, the records are exhausted.
KinesisDone ==
    /\ nz.pc = "L255"
    /\ nz.idx >= Len(nz.event)
    /\ nz' = [nz EXCEPT !.pc = "L280"]
    /\ UNCHANGED << response, dynamo_table, processed_bucket >>
    /\ UNCHANGED not_normalizer_vars

\* Line 284: errors if errors else None
ReportedErrors(errors) == IF Len(errors) = 0 THEN None ELSE Some(errors)

\* Lines 280-286
Return200 ==
    /\ nz.pc = "L280"
    /\ response' = [status |-> "ok", statusCode |-> 200,
                    processed_count |-> nz.processed_count,
                    errors |-> ReportedErrors(nz.errors), error |-> "",
                    event |-> nz.event, attempted |-> nz.attempted]
    /\ nz' = NoHandlerFrame
    /\ UNCHANGED << dynamo_table, processed_bucket >>
    /\ UNCHANGED not_normalizer_vars

\* Lines 288-295: the body reports the exception only.
Return500 ==
    /\ nz.pc = "L288"
    /\ response' = [status |-> "ok", statusCode |-> 500, processed_count |-> 0,
                    errors |-> None, error |-> nz.exc,
                    event |-> nz.event, attempted |-> nz.attempted]
    /\ nz' = NoHandlerFrame
    /\ UNCHANGED << dynamo_table, processed_bucket >>
    /\ UNCHANGED not_normalizer_vars

\* ------------------------------------------------------------------------
\* risk_scorer.lambda_handler (lines 305-366) with RiskScorer's methods
\* ------------------------------------------------------------------------
\* The caller evaluates lambda_handler(event, context); event['Records'] has
\* n entries, each read when the loop of line 318 reaches it.
ScorerCall(n) ==
    /\ sc.pc = "idle"
    /\ sc' = [NoScorerFrame EXCEPT !.pc = "L318", !.n_records = n]
    /\ risk_table' = {}
    /\ event_bus' = << >>
    /\ UNCHANGED scorer_response
    /\ UNCHANGED not_scorer_vars

\* Lines 318-333: the next record is read into filing_data (a failure goes
\* to the handler of line 349) and its features are extracted.
ScorerReadRecord(record) ==
    /\ sc.pc = "L318"
    /\ sc.index < sc.n_records
    /\ sc' = IF record.kind = "unreadable"
             THEN [sc EXCEPT !.pc = "L349", !.filing_data = None, !.features = None,
                             !.endpoint = NoEndpointOutcome, !.put_events = "",
                             !.risk_result = NoRiskResult]
             ELSE [sc EXCEPT !.pc = "L189", !.filing_data = record.filing_data,
                             !.features = Some(ExtractFeatures(Get(record.filing_data))),
                             !.endpoint = NoEndpointOutcome, !.put_events = "",
                             !.risk_result = NoRiskResult]
    /\ UNCHANGED << scorer_response, risk_table, event_bus >>
    /\ UNCHANGED not_scorer_vars

\* Fault: the handler of line 208 is missing, the error leaves the method.
AfterEndpointErrorReraise(features) == "L349"

\* Line 208: except Exception, then the fallback of line 212.
AfterEndpointError(features) == "L212"

\* score_with_sagemaker, lines 168-193: the endpoint is invoked.
ScorerInvoke(outcome) ==
    /\ sc.pc = "L189"
    /\ sc' = [sc EXCEPT !.endpoint = outcome,
                        !.pc = IF outcome.kind = "raises"
                               THEN AfterEndpointError(Get(sc.features))
                               ELSE "L196"]
    /\ UNCHANGED << scorer_response, risk_table, event_bus >>
    /\ UNCHANGED not_scorer_vars

\* Lines 196-206: the response is parsed and the result built.  json.loads,
\* the subscripts and float() raise on a body that is no prediction, and
\* _interpret_ml_score raises TypeError comparing a string with a number.
ScorerParse ==
    /\ sc.pc = "L196"
    /\ sc' = IF sc.endpoint.kind = "garbage" \/ ~Get(sc.features).numeric
             THEN [sc EXCEPT !.pc = AfterEndpointError(Get(sc.features))]
             ELSE [sc EXCEPT !.pc = "L339",
                             !.risk_result =
                                 MlResult(Get(sc.features), sc.endpoint.prediction)]
    /\ UNCHANGED << scorer_response, risk_table, event_bus >>
    /\ UNCHANGED not_scorer_vars

\* Line 212: return self.calculate_rule_based_score(features).  Line 112
\* raises TypeError on a string; nothing catches it before line 349.
ScorerFallback ==
    /\ sc.pc = "L212"
    /\ sc' = IF ~Get(sc.features).numeric
             THEN [sc EXCEPT !.pc = "L349"]
             ELSE [sc EXCEPT !.pc = "L339",
                             !.risk_result = CalculateRuleBasedScore(Get(sc.features))]
    /\ UNCHANGED << scorer_response, risk_table, event_bus >>
    /\ UNCHANGED not_scorer_vars

\* filing_data.get('filing_id'): the records of an event are numbered.
ScoredFilingId == sc.index + 1

\* Line 339, save_risk_score (lines 243-267): put_item stores the item or
\* raises, and the error is logged.
ScorerSave(stored) ==
    /\ sc.pc = "L339"
    /\ sc' = [sc EXCEPT !.pc = "L342"]
    /\ risk_table' = IF stored THEN risk_table \cup {ScoredFilingId} ELSE risk_table
    /\ UNCHANGED << scorer_response, event_bus >>
    /\ UNCHANGED not_scorer_vars

\* Fault: the test of line 271 reads the level.
AlertNeededByLevel(risk_result) == risk_result.risk_level = "CRITICAL"

\* Line 271: if risk_result['risk_score'] >= HIGH_RISK_THRESHOLD
AlertNeeded(risk_result) == risk_result.risk_score >= HIGH_RISK_THRESHOLD

\* Lines 274-289: the entry put on the bus.
HighRiskAlert(filing_id, risk_result) ==
    [DetailType |-> "High Risk Alert", filing_id |-> filing_id,
     risk_score |-> risk_result.risk_score, risk_level |-> risk_result.risk_level]

\* Line 342, trigger_alert_if_needed (lines 269-302): put_events sends the
\* entry or raises, and the error is logged.  SNS_TOPIC_ARN is '' unless the
\* environment sets it, so line 295 is not reached.  put_events records
\* what became of the call: "skipped", "sent" or "raised".
ScorerTrigger(sent) ==
    /\ sc.pc = "L342"
    /\ sc' = [sc EXCEPT !.pc = "L344",
                        !.put_events = IF ~AlertNeeded(sc.risk_result) THEN "skipped"
                                       ELSE IF sent THEN "sent" ELSE "raised"]
    /\ event_bus' = IF AlertNeeded(sc.risk_result) /\ sent
                    THEN Append(event_bus, HighRiskAlert(ScoredFilingId, sc.risk_result))
                    ELSE event_bus
    /\ UNCHANGED << scorer_response, risk_table >>
    /\ UNCHANGED not_scorer_vars

\* Lines 344-347: the counters, then the next record.
ScorerCount ==
    /\ sc.pc = "L344"
    /\ sc' = [sc EXCEPT !.pc = "L318", !.index = @ + 1,
                        !.processed_count = @ + 1,
                        !.high_risk_count =
                            IF sc.risk_result.risk_level \in {"HIGH", "CRITICAL"}
                            THEN @ + 1 ELSE @]
    /\ UNCHANGED << scorer_response, risk_table, event_bus >>
    /\ UNCHANGED not_scorer_vars

\* Lines 349-351: except Exception: log, continue.
ScorerRecordFailed ==
    /\ sc.pc = "L349"
    /\ sc' = [sc EXCEPT !.pc = "L318", !.index = @ + 1]
    /\ UNCHANGED << scorer_response, risk_table, event_bus >>
    /\ UNCHANGED not_scorer_vars

\* Lines 353-359: the records are exhausted.
ScorerReturn ==
    /\ sc.pc = "L318"
    /\ sc.index = sc.n_records
    /\ scorer_response' = [statusCode |-> 200, processed_count |-> sc.processed_count,
                           high_risk_count |-> sc.high_risk_count]
    /\ sc' = [sc EXCEPT !.pc = "idle"]
    /\ UNCHANGED << risk_table, event_bus >>
    /\ UNCHANGED not_scorer_vars

\* ------------------------------------------------------------------------
\* AgentCoordinator.orchestrate_multi_agent (lines 153-217) for one
\* session_id, with _load_conversation and _save_conversation
\* ------------------------------------------------------------------------
\* A service call may fail while fewer than MaxFailures calls have.
MayFail == failures < MaxFailures

\* The caller evaluates coordinator.orchestrate_multi_agent(user_query,
\* session_id); the queries of a session are numbered.
OrchestrateCall ==
    /\ co.pc = "idle"
    /\ clock < MaxTurns
    /\ clock' = clock + 1
    /\ co' = [NoCoordinatorFrame EXCEPT !.pc = "L166", !.user_query = clock + 1]
    /\ UNCHANGED << conversation_table, co_result, turns, clean, failures >>
    /\ UNCHANGED not_coordinator_vars

\* Line 166: conversation_history = self._load_conversation(session_id)
OrchestrateLoad(loaded) ==
    /\ co.pc = "L166"
    /\ loaded \/ MayFail
    /\ co' = [co EXCEPT !.pc = "L169",
                        !.conversation_history = LoadConversation(conversation_table, loaded)]
    /\ failures' = IF loaded THEN failures ELSE failures + 1
    /\ clean' = (clean /\ loaded)
    /\ UNCHANGED << conversation_table, co_result, turns, clock >>
    /\ UNCHANGED not_coordinator_vars

\* Line 169: route_query classifies the intent through Bedrock; an error of
\* _invoke_bedrock (lines 273-275) is raised again and leaves the call.
OrchestrateRoute(routed) ==
    /\ co.pc = "L169"
    /\ routed \/ MayFail
    /\ co' = [co EXCEPT !.pc = IF routed THEN "L200" ELSE "idle"]
    /\ co_result' = IF routed THEN co_result
                    ELSE [status |-> "raise", query |-> co.user_query,
                          final_response |-> ""]
    /\ failures' = IF routed THEN failures ELSE failures + 1
    /\ UNCHANGED << conversation_table, turns, clean, clock >>
    /\ UNCHANGED not_coordinator_vars

\* Lines 180-212: the supporting agents, then the primary agent, whose
\* response or error text is the final response.
OrchestrateExecute(answered) ==
    /\ co.pc = "L200"
    /\ answered \/ MayFail
    /\ co' = [co EXCEPT !.pc = "L322",
                        !.final_response = IF answered THEN "response" ELSE "Error"]
    /\ failures' = IF answered THEN failures ELSE failures + 1
    /\ UNCHANGED << conversation_table, co_result, turns, clean, clock >>
    /\ UNCHANGED not_coordinator_vars

\* Line 215, _save_conversation lines 322-325: the timestamp is taken and
\* the stored history loaded.
SaveLoad(loaded) ==
    /\ co.pc = "L322"
    /\ loaded \/ MayFail
    /\ co' = [co EXCEPT !.pc = "L328", !.timestamp = clock,
                        !.history = LoadConversation(conversation_table, loaded)]
    /\ failures' = IF loaded THEN failures ELSE failures + 1
    /\ clean' = (clean /\ loaded)
    /\ UNCHANGED << conversation_table, co_result, turns, clock >>
    /\ UNCHANGED not_coordinator_vars

\* Lines 328-346: the turn is appended, the history cut and put back; an
\* error of put_item is printed.
SavePut(stored) ==
    /\ co.pc = "L328"
    /\ stored \/ MayFail
    /\ LET history == KeptTurns(Append(co.history,
                          Turn(co.timestamp, co.user_query, co.final_response)))
       IN /\ co' = [co EXCEPT !.pc = "L217", !.history = history]
          /\ conversation_table' = IF stored THEN Some(history) ELSE conversation_table
    /\ failures' = IF stored THEN failures ELSE failures + 1
    /\ clean' = (clean /\ stored)
    /\ UNCHANGED << co_result, turns, clock >>
    /\ UNCHANGED not_coordinator_vars

\* Line 217: return results
OrchestrateReturn ==
    /\ co.pc = "L217"
    /\ co_result' = [status |-> "ok", query |-> co.user_query,
                     final_response |-> co.final_response]
    /\ turns' = Append(turns, [user |-> co.user_query, assistant |-> co.final_response])
    /\ co' = [co EXCEPT !.pc = "idle"]
    /\ UNCHANGED << conversation_table, clean, failures, clock >>
    /\ UNCHANGED not_coordinator_vars

\* ------------------------------------------------------------------------
\* alert_handler.lambda_handler (lines 231-284) with AlertHandler's methods
\* ------------------------------------------------------------------------
\* The frame also keeps what went wrong in the invocation: store_failed (a
\* put_item raised), notify_failed (a notification could not be sent) and
\* bad_input (a detail could not be read).
AlertCall(event) ==
    /\ ah.pc = "idle"
    /\ ah' = [NoAlertFrame EXCEPT !.pc = "L253", !.mode = event.mode, !.n = event.n,
                                  !.table = event.table, !.topic = event.topic]
    /\ alert_table' = {}
    /\ sns_sent' = {}
    /\ emails_sent' = {}
    /\ UNCHANGED alert_response
    /\ UNCHANGED not_alert_vars

\* Lines 253-255 and 266-268: the next detail is handed to
\* process_high_risk_alert; json.loads of a record body may raise.
AlertTakeDetail(detail) ==
    /\ ah.pc = "L253"
    /\ ah.index < ah.n
    /\ ah.mode = "single" => detail.kind /= "unparseable"
    /\ ah' = IF detail.kind = "unparseable"
             THEN [ah EXCEPT !.pc = "L279", !.bad_input = TRUE]
             ELSE [ah EXCEPT !.pc = "L41", !.detail_kind = detail.kind,
                             !.alert_record = AlertRecord(ah.index + 1, detail)]
    /\ UNCHANGED << alert_response, alert_table, sns_sent, emails_sent >>
    /\ UNCHANGED not_alert_vars

\* Lines 41-64: the fields are read with event_detail.get and the record is
\* built; an error is logged and raised again (lines 77-79).
AlertBuild ==
    /\ ah.pc = "L41"
    /\ ah' = IF ah.detail_kind = "malformed"
             THEN [ah EXCEPT !.pc = "L279", !.bad_input = TRUE]
             ELSE [ah EXCEPT !.pc = "L67"]
    /\ UNCHANGED << alert_response, alert_table, sns_sent, emails_sent >>
    /\ UNCHANGED not_alert_vars

\* Fault: the error of put_item is logged and the notifications go out.
AfterStoreErrorContinue(alert_record) == "L72"

\* Lines 77-79: the error of put_item is logged and raised again.
AfterStoreError(alert_record) == "L279"

\* Lines 67-69: if self.table: self.table.put_item(Item=alert_record)
AlertStore(stored) ==
    /\ ah.pc = "L67"
    /\ IF ~ah.table
       THEN /\ ah' = [ah EXCEPT !.pc = "L72"]
            /\ UNCHANGED alert_table
       ELSE IF stored
       THEN /\ ah' = [ah EXCEPT !.pc = "L72"]
            /\ alert_table' = alert_table \cup {ah.alert_record.alert_id}
       ELSE /\ ah' = [ah EXCEPT !.pc = AfterStoreError(ah.alert_record),
                                !.store_failed = TRUE]
            /\ UNCHANGED alert_table
    /\ UNCHANGED << alert_response, sns_sent, emails_sent >>
    /\ UNCHANGED not_alert_vars

\* Line 72, send_sns_notification (lines 81-99): nothing without a topic;
\* an error of the formatting or of publish is logged.
AlertSns(published) ==
    /\ ah.pc = "L72"
    /\ LET sent == ah.topic /\ ~FormatRaises(ah.alert_record) /\ published
       IN /\ sns_sent' = IF sent THEN sns_sent \cup {ah.alert_record.alert_id}
                         ELSE sns_sent
          /\ ah' = [ah EXCEPT !.pc = "L73",
                              !.notify_failed = @ \/ (ah.topic /\ ~sent)]
    /\ UNCHANGED << alert_response, alert_table, emails_sent >>
    /\ UNCHANGED not_alert_vars

\* Line 73, send_email_notification (lines 101-130): an error of the
\* formatting or of send_email is logged.
AlertEmail(delivered) ==
    /\ ah.pc = "L73"
    /\ LET sent == ~FormatRaises(ah.alert_record) /\ delivered
       IN /\ emails_sent' = IF sent THEN emails_sent \cup {ah.alert_record.alert_id}
                            ELSE emails_sent
          /\ ah' = [ah EXCEPT !.pc = "L75", !.notify_failed = @ \/ ~sent]
    /\ UNCHANGED << alert_response, alert_table, sns_sent >>
    /\ UNCHANGED not_alert_vars

\* Line 75 returns the record; lines 255 and 268-269 take its alert_id.
AlertProcessed ==
    /\ ah.pc = "L75"
    /\ ah' = [ah EXCEPT !.pc = "L253", !.index = @ + 1,
                        !.alerts = Append(@, ah.alert_record.alert_id)]
    /\ UNCHANGED << alert_response, alert_table, sns_sent, emails_sent >>
    /\ UNCHANGED not_alert_vars

\* Lines 256-262 and 271-277: statusCode 200 with the alert ids.
AlertReturn200 ==
    /\ ah.pc = "L253"
    /\ ah.index = ah.n
    /\ alert_response' = [statusCode |-> 200, alert_ids |-> ah.alerts]
    /\ ah' = [ah EXCEPT !.pc = "idle"]
    /\ UNCHANGED << alert_table, sns_sent, emails_sent >>
    /\ UNCHANGED not_alert_vars

\* Lines 279-284: statusCode 500 with the error.
AlertReturn500 ==
    /\ ah.pc = "L279"
    /\ alert_response' = [statusCode |-> 500, alert_ids |-> << >>]
    /\ ah' = [ah EXCEPT !.pc = "idle"]
    /\ UNCHANGED << alert_table, sns_sent, emails_sent >>
    /\ UNCHANGED not_alert_vars

\* ------------------------------------------------------------------------
\* Specifications
\* ------------------------------------------------------------------------
\* n_models ranges over the positive widths up to MaxModels: the estimator's
\* contract is an ensemble of K >= 1 members.
DoConstruct(I) ==
    \E i \in I, n \in 1..MaxModels, a \in Alphas, rs \in Seeds, kw \in CtorKwargs :
        Construct(i, n, a, rs, kw)
DoFitCall(I) == \E i \in I, d \in Datasets : FitCall(i, d)
DoPredictCall(I) == \E i \in I, Xn \in PredictInputs : PredictCall(i, Xn)
DoGfiCall(I) == \E i \in I : GfiCall(i)

\* The statements of a call, run to completion once the call is made.
FitBody ==
    \/ FitShape \/ FitResetModels \/ FitInitMember \/ FitInitDone
    \/ FitLoopHead \/ FitRoundBegin \/ FitRefitMember \/ FitRoundEnd
    \/ FitConvergenceCheck \/ FitStoreAgreement \/ FitNewFinal \/ FitFinalFit
    \/ FitOverrideCoef \/ FitOverrideIntercept \/ FitReturn

Body ==
    \/ FitBody
    \/ PredictGuard \/ PredictReturn
    \/ GfiGuard \/ GfiReturn

\* One estimator, every call in any order.
Next ==
    \/ DoConstruct({1}) \/ DoFitCall({1}) \/ DoPredictCall({1}) \/ DoGfiCall({1})
    \/ Body

Spec == Init /\ [][Next]_vars

\* Two estimators side by side, to compare runs: estimator 1 is constructed
\* and fitted any number of times, estimator 2 is constructed once and
\* fitted once.  The training sets are the one-feature ones.
PairDatasets == {d \in Datasets : d.X.ndim = 2 => NCols(d.X) = 1}

PairConstruct ==
    \E n \in 1..MaxModels, a \in Alphas, rs \in Seeds : Construct(1, n, a, rs, NoKwargs)
PairFitCall == \E d \in PairDatasets : FitCall(1, d)
RefConstruct ==
    /\ IsNone(est[2])
    /\ \E n \in 1..MaxModels, a \in Alphas, rs \in Seeds : Construct(2, n, a, rs, NoKwargs)
RefFitCall ==
    /\ fit_history[2] = "never"
    /\ \E d \in PairDatasets : FitCall(2, d)

PairNext == PairConstruct \/ PairFitCall \/ RefConstruct \/ RefFitCall \/ FitBody

PairSpec == Init /\ [][PairNext]_vars

\* Two estimators, each constructed once and fitted once, over a wider range
\* of regularisation strengths: the runs compared differ in alpha only.
ShrinkAlphas == Alphas \cup {3, 4}
\* Training sets on XOneWide, whose agreement vectors stay above the
\* resolution of the fixed-point numbers for these alphas, and the two sets
\* fit rejects.
ShrinkDatasets ==
    {d \in PairDatasets : RidgeFitRaises(d.X, d.y) \/ d.X = XOneWide}
        \cup { [X |-> XOneWide, y |-> << 0, (19 * Scale) \div 10 >>] }

ShrinkConstruct ==
    \E i \in Names, n \in 1..MaxModels, a \in ShrinkAlphas :
        /\ IsNone(est[i])
        /\ Construct(i, n, a, None, NoKwargs)
ShrinkFitCall ==
    \E i \in Names, d \in ShrinkDatasets :
        /\ fit_history[i] = "never"
        /\ FitCall(i, d)

ShrinkNext == ShrinkConstruct \/ ShrinkFitCall \/ FitBody

ShrinkSpec == Init /\ [][ShrinkNext]_vars

\* The data loader, every call in any order.
LoaderNext ==
    \/ \E asset_class \in RequestedClasses, count \in 0..MaxCount :
          GetByAssetClassCall(asset_class, count)
    \/ \E cik \in CallerCiks, count \in 0..MaxCount : GetByCikCall(cik, count)
    \/ CheckAssetClass \/ NarrowClasses \/ GenerateFiling \/ FilingsDone
    \/ RestoreClasses \/ ReturnFilings

LoaderSpec == Init /\ [][LoaderNext]_vars

\* The Lambda function, invoked with one event after another.
NormalizerNext ==
    \/ \E event \in Events : HandlerCall(event)
    \/ Dispatch \/ S3Record \/ S3Done \/ KinesisRecord \/ KinesisDone
    \/ Return200 \/ Return500

NormalizerSpec == Init /\ [][NormalizerNext]_vars

\* lambda_handler of the risk scorer, invoked again and again.
ScorerNext ==
    \/ \E n \in 0..MaxFilings : ScorerCall(n)
    \/ \E record \in ScorerRecords : ScorerReadRecord(record)
    \/ \E outcome \in EndpointOutcomes : ScorerInvoke(outcome)
    \/ ScorerParse
    \/ ScorerFallback
    \/ \E stored \in BOOLEAN : ScorerSave(stored)
    \/ \E sent \in BOOLEAN : ScorerTrigger(sent)
    \/ ScorerCount
    \/ ScorerRecordFailed
    \/ ScorerReturn

ScorerSpec == Init /\ [][ScorerNext]_vars

\* One session of the dialogue panel: one orchestrate_multi_agent call after
\* another.
CoordinatorNext ==
    \/ OrchestrateCall
    \/ \E loaded \in BOOLEAN : OrchestrateLoad(loaded)
    \/ \E routed \in BOOLEAN : OrchestrateRoute(routed)
    \/ \E answered \in BOOLEAN : OrchestrateExecute(answered)
    \/ \E loaded \in BOOLEAN : SaveLoad(loaded)
    \/ \E stored \in BOOLEAN : SavePut(stored)
    \/ OrchestrateReturn

CoordinatorSpec == Init /\ [][CoordinatorNext]_vars

\* The alert handler, invoked with one event after another.
AlertNext ==
    \/ \E event \in AlertEvents : AlertCall(event)
    \/ \E detail \in AlertDetails : AlertTakeDetail(detail)
    \/ AlertBuild
    \/ \E stored \in BOOLEAN : AlertStore(stored)
    \/ \E published \in BOOLEAN : AlertSns(published)
    \/ \E delivered \in BOOLEAN : AlertEmail(delivered)
    \/ AlertProcessed
    \/ AlertReturn200
    \/ AlertReturn500

AlertSpec == Init /\ [][AlertNext]_vars

\* ------------------------------------------------------------------------
\* Properties
\* ------------------------------------------------------------------------
ForInst(i) == Get(est[i])
IsQuery(r) == r.op \in {"predict", "get_feature_importance"}

\* C1: predict or get_feature_importance on an estimator on which fit was
\* never called ends by raising the not-fitted error, never with a value.
C1_FreshSignalsNotFitted ==
    IsQuery(result) /\ fit_history[result.inst] = "never"
        => result.status = "raise" /\ result.exc = "NotFitted"

C1_Witness ==
    /\ result.op = "predict"
    /\ fit_history[result.inst] = "never"
    /\ result.status = "raise"

\* C2: once a fit call has returned, between calls the estimator has a fitted
\* final model and an agreement vector, predict and get_feature_importance
\* do not signal not-fitted, and a fit that left the agreement loop, by the
\* tolerance test or by using up its rounds, does not raise.
C2_FittedIsUsable ==
    /\ pc = "idle" =>
         \A i \in Names :
            fit_history[i] = "fitted" =>
               /\ HasFinalModel(ForInst(i))
               /\ Get(ForInst(i).final_model_).fitted
               /\ ~IsNone(ForInst(i).agreement_vector)
    /\ IsQuery(result) /\ fit_history[result.inst] = "fitted"
         => result.exc \notin {"NotFitted", "AttributeError", "TypeError"}
    /\ pc = "idle" /\ result.op = "fit" /\ result.status = "raise"
         => stopped[result.inst] = "none"

C2_Witness ==
    /\ result.op = "predict"
    /\ result.status = "ok"
    /\ stopped[result.inst] = "budget"
    /\ rounds[result.inst] = max_iter

\* C3: while every fit call made on an estimator has raised, between calls it
\* has neither a final model nor an agreement vector, and predict and
\* get_feature_importance raise the not-fitted error.
C3_FailedFitStaysUnfitted ==
    /\ pc = "idle" =>
         \A i \in Names :
            fit_history[i] = "failed" =>
               /\ ~HasFinalModel(ForInst(i))
               /\ IsNone(ForInst(i).agreement_vector)
    /\ IsQuery(result) /\ fit_history[result.inst] = "failed"
         => result.status = "raise" /\ result.exc = "NotFitted"

C3_Witness ==
    /\ result.op = "get_feature_importance"
    /\ fit_history[result.inst] = "failed"
    /\ result.exc = "NotFitted"

\* An upper bound on the statements the running call still has to execute.
StepsLeft ==
    IF pc = "idle" THEN 0
    ELSE LET K == Me.n_models
             after(it) == (max_iter - 1 - it) * (K + 4) + 7
         IN  CASE pc = "L54"  -> K + 3 + after(-1)
               [] pc = "L57"  -> K + 2 + after(-1)
               [] pc = "L58"  -> (K - loc.k) + 1 + after(-1)
               [] pc = "L75"  -> after(loc.iteration)
               [] pc = "L76"  -> K + 3 + after(loc.iteration)
               [] pc = "L86"  -> (K - loc.k) + 2 + after(loc.iteration)
               [] pc = "L96"  -> 1 + after(loc.iteration)
               [] pc = "L100" -> 6
               [] pc = "L103" -> 5
               [] pc = "L104" -> 4
               [] pc = "L105" -> 3
               [] pc = "L106" -> 2
               [] pc = "L108" -> 1
               [] pc \in {"L125", "L137"} -> 2
               [] pc \in {"L128", "L141"} -> 1

\* C4: a fit never runs more than max_iter agreement rounds, its loop index
\* stays below max_iter, and every statement of a running call brings the
\* call strictly closer to its end, so the call terminates.
C4_FitTerminatesWithinBudget ==
    /\ [](/\ \A i \in Names : rounds[i] <= max_iter
          /\ pc \in {"L76", "L86", "L96"} => loc.iteration \in 0..(max_iter - 1))
    /\ [][pc # "idle" => StepsLeft' >= 0 /\ StepsLeft' < StepsLeft]_vars

C4_Witness ==
    /\ pc = "idle"
    /\ result.op = "fit"
    /\ result.status = "ok"
    /\ rounds[result.inst] = max_iter
    /\ stopped[result.inst] = "budget"

\* C5: a returned prediction holds, for every row of the matrix passed in,
\* the dot product of the row with the stored agreement vector plus the
\* final model's intercept.
C5_PredictIsLinear ==
    pc = "idle" /\ result.op = "predict" /\ result.status = "ok" =>
        LET e == ForInst(result.inst)
            beta == Get(e.agreement_vector)
            b == Get(e.final_model_).intercept_
        IN  /\ Get(e.final_model_).coef_ = beta
            /\ DOMAIN result.value = 1..NRows(X)
            /\ \A r \in 1..NRows(X) :
                  result.value[r]
                     = SumSeq([j \in 1..NCols(X) |-> X.a[r][j] * beta[j]]) + b

C5_Witness ==
    /\ pc = "idle"
    /\ result.op = "predict"
    /\ result.status = "ok"
    /\ NRows(X) = 2
    /\ ForInst(result.inst).alpha = 1
    /\ Get(ForInst(result.inst).agreement_vector)[1] # 0

\* The feature count of the data an estimator was last fitted on.
TrainedWidth(i) == NCols(Get(trained[i]).X)

\* C6: on a fitted estimator, predict on a two-dimensional matrix with as
\* many columns as the training matrix returns one value per row, and
\* predict on a matrix with another column count raises.
C6_PredictShape ==
    pc = "idle" /\ result.op = "predict" /\ fit_history[result.inst] = "fitted"
      /\ X.ndim = 2 /\ NRows(X) > 0 =>
        IF NCols(X) = TrainedWidth(result.inst)
        THEN result.status = "ok" /\ Len(result.value) = NRows(X)
        ELSE result.status = "raise" /\ result.exc = "ValueError"

C6_Witness ==
    /\ pc = "idle"
    /\ result.op = "predict"
    /\ fit_history[result.inst] = "fitted"
    /\ X.ndim = 2
    /\ NCols(X) > TrainedWidth(result.inst)
    /\ result.exc = "ValueError"

\* C7: get_feature_importance returns two equally long sequences: the names
\* of exactly the features whose agreement coefficient is above 1e-3 in
\* absolute value (strictly), in ascending index order, and at each position
\* the coefficient of the feature named there.
C7_ImportanceAboveThreshold ==
    pc = "idle" /\ result.op = "get_feature_importance" /\ result.status = "ok" =>
        LET c == Get(ForInst(result.inst).agreement_vector)
            f == result.value.features
            v == result.value.coeffs
        IN  /\ Len(f) = Len(v)
            /\ {f[t] : t \in 1..Len(f)}
                 = {<< "Feature", j - 1 >> :
                       j \in {l \in 1..Len(c) : Abs(c[l]) > Scale \div 1000}}
            /\ \A t \in 1..Len(f) : v[t] = c[f[t][2] + 1]
            /\ \A t \in 1..(Len(f) - 1) : f[t][2] < f[t + 1][2]

C7_Witness ==
    /\ pc = "idle"
    /\ result.op = "get_feature_importance"
    /\ result.status = "ok"
    /\ Len(result.value.features) = 1
    /\ Len(Get(ForInst(result.inst).agreement_vector)) = 2
    /\ \E j \in 1..2 :
          Abs(Get(ForInst(result.inst).agreement_vector)[j]) = Scale \div 1000

\* Both estimators are fitted, with the same parameters, on the same data.
SameRun ==
    /\ pc = "idle"
    /\ fit_history[1] = "fitted"
    /\ fit_history[2] = "fitted"
    /\ ForInst(1).n_models = ForInst(2).n_models
    /\ ForInst(1).alpha = ForInst(2).alpha
    /\ ForInst(1).random_state = ForInst(2).random_state
    /\ trained[1] = trained[2]

PredictOutcome(e, Xn) ==
    IF RidgePredictRaises(Get(e.final_model_), Xn)
    THEN << "raise" >>
    ELSE << "ok", RidgePredict(Get(e.final_model_), Xn) >>

\* C8: two estimators with the same n_models, alpha and random_state, last
\* fitted on the same X and y, whatever was done with them before, hold the
\* same agreement vector and intercept and predict the same values.
C8_Deterministic ==
    SameRun =>
        /\ ForInst(1).agreement_vector = ForInst(2).agreement_vector
        /\ Get(ForInst(1).final_model_).intercept_ = Get(ForInst(2).final_model_).intercept_
        /\ \A Xn \in PredictInputs :
              PredictOutcome(ForInst(1), Xn) = PredictOutcome(ForInst(2), Xn)

C8_Witness ==
    /\ SameRun
    /\ ForInst(1).alpha = 1
    /\ rounds[1] = max_iter
    /\ result.inst = 1

\* C9: no statement of a running call changes the caller's X or y.
C9_InputsUntouched == [][pc # "idle" => X' = X /\ y' = y]_vars

C9_Witness ==
    /\ pc = "idle"
    /\ result.op = "fit"
    /\ result.status = "ok"
    /\ [X |-> X, y |-> y] \in Datasets
    /\ rounds[result.inst] = 6

NamesBudgetOrThreshold(kw) == ~IsNone(kw.max_iterations) \/ ~IsNone(kw.tolerance)

\* C10 as stated: a constructor call naming max_iterations or tolerance is
\* accepted as configuration of the new estimator.
C10_AsClaimed ==
    result.op = "__init__" /\ NamesBudgetOrThreshold(result.kwargs)
        => result.status = "ok"

\* C10 amended: max_iterations and tolerance are no constructor parameters,
\* a constructor call naming either raises TypeError; every fit of every
\* estimator runs at most 10 rounds, leaves the loop on the round budget only
\* after exactly 10, and leaves it on the tolerance test exactly when the
\* agreement vector moved by less than 1e-4.
C10_BudgetAndThresholdFixed ==
    /\ result.op = "__init__" /\ NamesBudgetOrThreshold(result.kwargs)
         => result.status = "raise" /\ result.exc = "TypeError"
    /\ \A i \in Names :
          /\ rounds[i] <= 10
          /\ stopped[i] = "budget" => rounds[i] = 10
    /\ pc \in {"L100", "L103", "L104", "L105", "L106", "L108"} =>
          (stopped[self] = "tolerance"
              <=> NormBelow(loc.new_coeffs, loc.old_coeffs, Scale \div 10000))

C10_Witness ==
    /\ result.op = "__init__"
    /\ ~IsNone(result.kwargs.max_iterations)
    /\ result.status = "raise"
    /\ stopped[result.inst] = "budget"

\* The Euclidean norm of a one-entry coefficient vector (the training sets of
\* ShrinkSpec have one feature): the magnitude of its entry.
Norm(v) == Abs(v[1])

\* Estimators i and j were fitted on the same X and y with the same ensemble
\* width and seed.
SameDataAndWidth(i, j) ==
    /\ pc = "idle"
    /\ fit_history[i] = "fitted"
    /\ fit_history[j] = "fitted"
    /\ trained[i] = trained[j]
    /\ ForInst(i).n_models = ForInst(j).n_models
    /\ ForInst(i).random_state = ForInst(j).random_state

\* C11: of two fits on the same X and y that differ in alpha only, the one
\* with the larger alpha ends with an agreement vector of strictly smaller
\* Euclidean norm, whenever the agreement vector of the smaller alpha is not
\* zero.
C11_LargerAlphaShrinks ==
    \A i, j \in Names :
        /\ SameDataAndWidth(i, j)
        /\ ForInst(i).alpha < ForInst(j).alpha
        /\ Norm(Get(ForInst(i).agreement_vector)) # 0
        => Norm(Get(ForInst(j).agreement_vector))
               < Norm(Get(ForInst(i).agreement_vector))

\* The description names the asset class: it contains the class's name with
\* the underscores read as spaces, whatever the case of the letters.
Mentions(description, asset_class) ==
    Contains(Lower(description), Lower(Replace(asset_class, "_", " ")))

\* C13: get_mock_filings_by_asset_class called with a class of the loader's
\* list returns exactly count filings, each with a description naming that
\* class; called with any other class it raises ValueError and has generated
\* no filing.
C13_FilingsOfTheRequestedClass ==
    ld_result.op = "get_mock_filings_by_asset_class" =>
        IF ld_result.listed
        THEN /\ ld_result.status = "ok"
             /\ Len(ld_result.value) = ld_result.count
             /\ \A k \in 1..Len(ld_result.value) :
                   Mentions(ld_result.value[k].description, ld_result.asset_class)
        ELSE /\ ld_result.status = "raise"
             /\ ld_result.exc = "ValueError"
             /\ ld_result.generated = 0

C13_Witness ==
    /\ ld_result.op = "get_mock_filings_by_asset_class"
    /\ ld_result.asset_class = CREDIT_CARD
    /\ ld_result.status = "ok"
    /\ Len(ld_result.value) = 2
    /\ ld_result.value[1].formType # ld_result.value[2].formType

\* An S3 event: at least one record, each with an 's3' entry (complete or
\* not).
IsS3Event(event) ==
    /\ Len(event) >= 1
    /\ \A k \in 1..Len(event) : event[k].kind = "s3"

ErrorCount(errors) == IF IsNone(errors) THEN 0 ELSE Len(Get(errors))

\* C14: lambda_handler invoked with an S3 event of n >= 1 records, whatever
\* fails on whichever record, begins every record, answers with statusCode
\* 200, and its processed count plus the number of errors it reports is n.
C14_FailuresIsolatedPerRecord ==
    response.status = "ok" /\ IsS3Event(response.event) =>
        /\ response.statusCode = 200
        /\ response.attempted = 1..Len(response.event)
        /\ response.processed_count + ErrorCount(response.errors) = Len(response.event)

\* C15: while the members of a round are being refit, and when the round
\* has swapped them in, every new member is the fit of X against one target,
\* the mean prediction of the members the round started with (whose mean
\* coefficients are old_coeffs): not against y, and not against a mean that
\* a new member of the same round has entered.
C15_OneTargetPerRound ==
    /\ pc = "L86" =>
          /\ GetAvgCoeffs(Me.models_) = loc.old_coeffs
          /\ loc.avg_prediction = AvgPrediction(Me.models_, X)
          /\ \A m \in 1..Len(loc.new_models) :
                loc.new_models[m] = RidgeFit(X, AvgPrediction(Me.models_, X), Me.alpha)
    /\ pc = "L96" =>
          /\ Len(Me.models_) = Me.n_models
          /\ \A m \in 1..Len(Me.models_) :
                Me.models_[m] = RidgeFit(X, loc.avg_prediction, Me.alpha)

C15_Witness ==
    /\ pc = "L86"
    /\ Me.n_models = 2
    /\ Me.alpha = 1
    /\ Len(loc.new_models) = 2
    /\ loc.iteration = 3
    /\ loc.avg_prediction # y
    /\ RidgeFit(X, y, Me.alpha) # loc.new_models[2]

\* A step taken inside the agreement loop leaves the member list alone or
\* is the end of a round, which puts the round's complete new list in its
\* place.
ListKeptOrSwapped ==
    pc \in {"L75", "L76", "L86", "L96"} =>
        \/ (Me.models_)' = Me.models_
        \/ /\ pc = "L86"
           /\ pc' = "L96"
           /\ Len(loc.new_models) = Me.n_models
           /\ (Me.models_)' = loc.new_models

\* C16: within the agreement loop the estimator's member list changes in one
\* way only, at the end of a round, to the complete list of that round's K
\* new members; the new agreement vector and the convergence test (line 96
\* on) see that complete list, so the list never holds members of two rounds.
C16_WholeEnsembleReplaced ==
    /\ [](pc = "L96" =>
            /\ Len(loc.new_models) = Me.n_models
            /\ Me.models_ = loc.new_models
            /\ loc.new_coeffs = GetAvgCoeffs(loc.new_models))
    /\ [][ListKeptOrSwapped]_vars

C16_Witness ==
    /\ pc = "L96"
    /\ Me.n_models = 2
    /\ Me.alpha = 2
    /\ rounds[self] = 3
    /\ Me.models_ = loc.new_models
    /\ GetAvgCoeffs(Me.models_) # loc.old_coeffs

PostLoopLines == {"L100", "L103", "L104", "L105", "L106", "L108"}
RoundLines == {"L75", "L76", "L86", "L96"}

\* What a step of fit does around the end of a round.
EarlyStopStep ==
    /\ pc = "L96" =>
          IF NormBelow(loc.new_coeffs, loc.old_coeffs, tolerance)
          THEN pc' = "L100"
          ELSE pc' = "L75"
    /\ pc = "L75" =>
          IF rounds[self] < max_iter THEN pc' = "L76" ELSE pc' = "L100"
    /\ pc \in PostLoopLines => rounds' = rounds /\ pc' \notin RoundLines

\* C17: a round that moved the agreement vector by strictly less than the
\* tolerance is the last one, fit goes on to line 100 and refits no more; a
\* round that moved it by the tolerance or more is followed by another round
\* as long as fewer than max_iter rounds have run.
C17_EarlyStop == [][EarlyStopStep]_vars

\* The round before this one moved the agreement vector by exactly the
\* tolerance, and another round has begun.
C17_Witness ==
    /\ pc = "L76"
    /\ rounds[self] >= 1
    /\ Len(loc.new_coeffs) = 1
    /\ Abs(loc.new_coeffs[1] - loc.old_coeffs[1]) = tolerance

\* C18: when fit has returned, the member list holds the K members of the
\* last round, the stored agreement vector is the elementwise mean of their
\* coefficients, the final model's coefficients are that vector, and the
\* final model's intercept is the mean of the same members' intercepts.
C18_Finalization ==
    pc = "idle" /\ result.op = "fit" /\ result.status = "ok" =>
        LET e  == ForInst(result.inst)
            ms == e.models_
            fm == Get(e.final_model_)
        IN  /\ Len(ms) = e.n_models
            /\ rounds[result.inst] >= 1
            /\ Get(e.agreement_vector) =
                  [j \in 1..Len(ms[1].coef_) |->
                      RoundDiv(SumSeq([m \in 1..Len(ms) |-> ms[m].coef_[j]]), Len(ms))]
            /\ fm.coef_ = Get(e.agreement_vector)
            /\ fm.intercept_ =
                  RoundDiv(SumSeq([m \in 1..Len(ms) |-> ms[m].intercept_]), Len(ms))

\* A fit has returned whose agreement vector and intercept are not those of
\* a plain ridge fit on (X, y).
C18_Witness ==
    /\ pc = "idle"
    /\ result.op = "fit"
    /\ result.status = "ok"
    /\ ForInst(result.inst).n_models = 2
    /\ rounds[result.inst] = max_iter
    /\ Get(ForInst(result.inst).final_model_).coef_ # RidgeFit(X, y, ForInst(result.inst).alpha).coef_
    /\ Get(ForInst(result.inst).final_model_).intercept_
           # RidgeFit(X, y, ForInst(result.inst).alpha).intercept_

AllSame(models) == \A m \in 1..Len(models) : models[m] = models[1]

\* C19: at every point of fit the members in the estimator's list are equal
\* to one another (coefficients and intercept), so are the new members of
\* the round under way, and every agreement vector fit computes (old_coeffs,
\* new_coeffs, the one it stores) is the coefficient vector of a member.
C19_MembersIdentical ==
    /\ \A i \in Names : ~IsNone(est[i]) => AllSame(ForInst(i).models_)
    /\ AllSame(loc.new_models)
    /\ pc = "L86" => loc.old_coeffs = Me.models_[1].coef_
    /\ pc \in {"L96", "L100"} => loc.new_coeffs = Me.models_[1].coef_
    /\ pc \in {"L103", "L104", "L105", "L106", "L108"} =>
          Get(Me.agreement_vector) = Me.models_[1].coef_
    /\ pc = "idle" /\ result.op = "fit" /\ result.status = "ok" =>
          Get(ForInst(result.inst).agreement_vector)
              = ForInst(result.inst).models_[1].coef_

C19_Witness ==
    /\ pc = "L96"
    /\ Me.n_models = 2
    /\ Me.alpha = 1
    /\ rounds[self] = 4
    /\ Len(loc.new_coeffs) = 2
    /\ Me.models_[1] = Me.models_[2]
    /\ loc.new_coeffs # loc.old_coeffs

IsZero(v) == \A j \in 1..Len(v) : v[j] = 0

\* C20 as stated: whatever alpha, a round leaves the agreement vector as it
\* was, and fit leaves the loop on the tolerance test after its first round.
C20_AsClaimed ==
    /\ pc = "L96" => loc.new_coeffs = loc.old_coeffs
    /\ pc \in PostLoopLines => rounds[self] = 1 /\ stopped[self] = "tolerance"

\* C20 amended: with alpha = 0 the first round reproduces the agreement
\* vector and fit leaves the loop on the tolerance test after that round;
\* with alpha > 0 every round moves an agreement vector that is not zero.
C20_TrivialOnlyWithoutPenalty ==
    /\ pc = "L96" /\ Me.alpha = 0 => loc.new_coeffs = loc.old_coeffs
    /\ pc \in PostLoopLines /\ Me.alpha = 0 =>
          rounds[self] = 1 /\ stopped[self] = "tolerance"
    /\ pc = "L96" /\ Me.alpha > 0 /\ ~IsZero(loc.old_coeffs) =>
          loc.new_coeffs # loc.old_coeffs

\* A fit with alpha > 0 has used up the round budget, its last round still
\* moving the agreement vector by the tolerance or more.
C20_Witness ==
    /\ pc = "L100"
    /\ Me.alpha > 0
    /\ rounds[self] = max_iter
    /\ stopped[self] = "budget"
    /\ ~NormBelow(loc.new_coeffs, loc.old_coeffs, tolerance)

\* The lines of score_with_sagemaker a call can be at.
ScoringLines == {"L189", "L196", "L212"}

ScoringContinues ==
    (sc.pc \in ScoringLines /\ Get(sc.features).numeric)
        => sc'.pc \in ScoringLines \cup {"L339"}

ScoredAsTheEndpointAllows ==
    sc.pc = "L339" =>
        /\ Get(sc.features).numeric
        /\ sc.risk_result.risk_level
               \in {"CRITICAL", "HIGH", "MEDIUM", "LOW", "MINIMAL"}
        /\ sc.endpoint.kind \in {"raises", "garbage"} =>
               /\ sc.risk_result.scoring_method = "rule_based"
               /\ sc.risk_result = CalculateRuleBasedScore(Get(sc.features))
        /\ sc.endpoint.kind = "answers" =>
               /\ sc.risk_result.scoring_method = "ml_model"
               /\ sc.risk_result = MlResult(Get(sc.features), sc.endpoint.prediction)

\* C21: score_with_sagemaker never fails because of the endpoint.  Called
\* with numeric features it always returns (no step of it leaves through an
\* exception); when invoking the endpoint or parsing its response raised,
\* what it returns is the rule-based result with scoring_method
\* 'rule_based', and otherwise the model's result with scoring_method
\* 'ml_model'.
C21_FallbackOnEndpointFailure ==
    [] ScoredAsTheEndpointAllows /\ [][ScoringContinues]_vars

\* The response could not be parsed and the rules scored the filing.
C21_Witness ==
    /\ sc.pc = "L339"
    /\ sc.endpoint.kind = "garbage"
    /\ sc.risk_result.scoring_method = "rule_based"
    /\ sc.risk_result.risk_score > 0

\* C28: with the default threshold of 0.75, a 'High Risk Alert' event is put
\* on the bus for a scored filing exactly when the risk_level of the filing's
\* result is CRITICAL, whichever way the score was produced (a put_events
\* call that raises is left aside).
C28_AlertIffCritical ==
    (sc.pc = "L344" /\ sc.put_events /= "raised") =>
        (sc.put_events = "sent" <=> sc.risk_result.risk_level = "CRITICAL")

\* The history stored for the session.
StoredHistory == LoadConversation(conversation_table, TRUE)

\* C22: only the last 50 turns of a conversation are kept.  Between calls,
\* when every load and save of the session has succeeded and n calls have
\* returned, the stored history holds exactly the last min(n, 50) of their
\* turns, in the order of the calls (query and response of each, with
\* increasing timestamps): none lost, none twice.
C22_LastFiftyTurns ==
    (co.pc = "idle" /\ clean) =>
        LET n == Len(turns)
            k == Min(n, HistoryLimit)
        IN /\ Len(StoredHistory) = k
           /\ \A i \in 1..k :
                 /\ StoredHistory[i].user = turns[n - k + i].user
                 /\ StoredHistory[i].assistant = turns[n - k + i].assistant
           /\ \A i \in 1..(k - 1) :
                 StoredHistory[i].timestamp < StoredHistory[i + 1].timestamp

\* Two turns have been dropped from the front of a full history.
C22_Witness ==
    /\ co.pc = "idle"
    /\ clean
    /\ Len(turns) = HistoryLimit + 2
    /\ Len(StoredHistory) = HistoryLimit
    /\ StoredHistory[1].user = 3
    /\ StoredHistory[HistoryLimit].user = HistoryLimit + 2

\* C23: the two fitted-state markers agree between public calls, whatever
\* calls were made before (constructor, fit that returned or raised, predict,
\* get_feature_importance): an estimator has a final model exactly when its
\* agreement vector is set, and then the final model's coefficient vector is
\* the agreement vector.  So the guard of predict (line 125) lets a call
\* pass exactly when the guard of get_feature_importance (line 137) does.
C23_MarkersAgree ==
    pc = "idle" =>
        \A i \in Names :
            ~IsNone(est[i]) =>
                LET e == Get(est[i])
                IN /\ HasFinalModel(e) <=> ~IsNone(e.agreement_vector)
                   /\ HasFinalModel(e) =>
                          Get(e.final_model_).coef_ = Get(e.agreement_vector)

\* A fitted estimator whose latest fit call raised after line 57.
C23_Witness ==
    /\ pc = "idle"
    /\ ~IsNone(est[1])
    /\ fit_history[1] = "fitted"
    /\ result.op = "fit" /\ result.status = "raise" /\ result.exc = "ValueError"
    /\ Get(est[1]).models_ = << >>
    /\ HasFinalModel(Get(est[1]))
    /\ ~IsNone(Get(est[1]).agreement_vector)

\* Estimator 1 is at the return statement of a fit on data that estimator 2,
\* built with the same parameters, was fitted on as its only fit.
RefitBesideFreshFit ==
    /\ pc = "L108"
    /\ self = 1
    /\ fit_history[2] = "fitted"
    /\ ForInst(1).n_models = ForInst(2).n_models
    /\ ForInst(1).alpha = ForInst(2).alpha
    /\ ForInst(1).random_state = ForInst(2).random_state
    /\ trained[2] = Some([X |-> X, y |-> y])

\* C24: refitting replaces the fitted state altogether.  When a fit returns
\* on an estimator that a fit had returned on before, its members, its
\* agreement vector and its final model, and with them every predict and
\* get_feature_importance result, are those of a fresh estimator with the
\* same parameters fitted on the new data only.
C24_RefitReplacesFittedState ==
    (RefitBesideFreshFit /\ fit_history[1] = "fitted") =>
        /\ ForInst(1).models_ = ForInst(2).models_
        /\ ForInst(1).agreement_vector = ForInst(2).agreement_vector
        /\ ForInst(1).final_model_ = ForInst(2).final_model_
        /\ \A Xn \in PredictInputs :
              PredictOutcome(ForInst(1), Xn) = PredictOutcome(ForInst(2), Xn)
        /\ FeatureImportance(Get(ForInst(1).agreement_vector))
               = FeatureImportance(Get(ForInst(2).agreement_vector))

\* The refit is on other data than the fit before it, under a penalty that
\* makes the rounds move the coefficients.
C24_Witness ==
    /\ RefitBesideFreshFit
    /\ fit_history[1] = "fitted"
    /\ trained[1] /= trained[2]
    /\ ForInst(1).alpha = 1
    /\ ForInst(1).n_models = 2

\* The lines of fit before line 100, the first that writes a fitted-state
\* marker.
LinesBeforeStore == {"L54", "L57", "L58"} \cup RoundLines

\* What a step of fit does to the markers of the estimator it runs on.
FailedFitStep ==
    /\ pc \in LinesBeforeStore =>
          /\ Get(est'[self]).final_model_ = Me.final_model_
          /\ Get(est'[self]).agreement_vector = Me.agreement_vector
    /\ (pc \in LinesBeforeStore \cup PostLoopLines
            /\ pc' = "idle" /\ result'.status = "raise") =>
          pc \in LinesBeforeStore

\* C25: a fit call that raises leaves the stored final model and agreement
\* vector as they were, so predict and get_feature_importance return
\* afterwards what they returned before.  No statement of fit before line
\* 100 writes either of them, and no statement from line 100 on raises.
C25_FailedFitKeepsFittedState == [][FailedFitStep]_vars

\* A fitted estimator inside a fit that is about to raise at line 65: the
\* members are gone, the final model and the agreement vector are not.
C25_Witness ==
    /\ pc = "L58"
    /\ fit_history[self] = "fitted"
    /\ RidgeFitRaises(X, y)
    /\ Me.models_ = << >>
    /\ HasFinalModel(Me)
    /\ Get(Me.final_model_).coef_ = Get(Me.agreement_vector)

\* Both estimators are fitted on the same data with the same alpha, by
\* ensembles of whatever widths.
SameDataAndAlpha ==
    /\ pc = "idle"
    /\ fit_history[1] = "fitted"
    /\ fit_history[2] = "fitted"
    /\ ForInst(1).alpha = ForInst(2).alpha
    /\ trained[1] = trained[2]

\* C26: the fitted result does not depend on the ensemble width.  Two
\* estimators fitted on the same X and y with the same alpha hold the same
\* agreement vector and final intercept, predict the same values and have
\* run the same number of agreement rounds, whatever their n_models >= 1.
\* (rounds and stopped describe the latest fit call: they are compared when
\* that call is the one that returned.)
C26_WidthIndependent ==
    SameDataAndAlpha =>
        /\ ForInst(1).agreement_vector = ForInst(2).agreement_vector
        /\ Get(ForInst(1).final_model_).intercept_ = Get(ForInst(2).final_model_).intercept_
        /\ \A Xn \in PredictInputs :
              PredictOutcome(ForInst(1), Xn) = PredictOutcome(ForInst(2), Xn)
        /\ (stopped[1] /= "none" /\ stopped[2] /= "none") =>
              (rounds[1] = rounds[2] /\ stopped[1] = stopped[2])

\* Ensembles of different widths, under a penalty that makes the rounds move
\* the coefficients.
C26_Witness ==
    /\ SameDataAndAlpha
    /\ ForInst(1).n_models /= ForInst(2).n_models
    /\ ForInst(1).alpha = 2
    /\ rounds[1] > 1
    /\ rounds[2] > 1
    /\ Get(ForInst(1).agreement_vector)[1] /= 0

\* What a step of the estimator's calls does to numpy's global generator.
RandomStateStep ==
    /\ (pc /= "idle" \/ pc' /= "idle") => np_random' = np_random
    /\ (pc = "idle" /\ pc' = "idle") =>
          /\ result'.op = "__init__"
          /\ np_random' =
                IF result'.status = "raise" THEN np_random
                ELSE IF IsNone(Get(est'[result'.inst]).random_state) THEN np_random
                ELSE Get(est'[result'.inst]).random_state

\* C27: the estimator touches the process-global random state in its
\* constructor only.  Constructing with random_state=None leaves numpy's
\* global generator as it was, constructing with an integer reseeds it with
\* that integer, and no statement of fit, predict or get_feature_importance
\* changes it.
C27_SeedOnlyInConstructor == [][RandomStateStep]_vars

\* An estimator built with random_state=None after the generator had been
\* seeded, then fitted and used: the seed is still the earlier one.
C27_Witness ==
    /\ pc = "idle"
    /\ np_random = Some(42)
    /\ ~IsNone(est[1])
    /\ IsNone(ForInst(1).random_state)
    /\ fit_history[1] = "fitted"
    /\ result.op = "predict"
    /\ result.status = "ok"


\* A notification is not undone, and its failure is not raised: the lines of
\* the two notifications are left for the next line of
\* process_high_risk_alert, never for the handler's except clause.
NotificationStep ==
    ah.pc \in {"L72", "L73"} => ah'.pc \in {"L73", "L75"}

\* With the alert table configured, every alert published or e-mailed was
\* stored before.
NotifiedOnlyIfStored ==
    ah.table => (sns_sent \cup emails_sent) \subseteq alert_table

\* What a finished invocation answers: 500 after a failed store; 200 with
\* every alert after failed notifications, if nothing else went wrong.
AlertAnswer ==
    (ah.pc = "idle" /\ ah.mode /= "") =>
        /\ ah.store_failed => alert_response.statusCode = 500
        /\ (ah.notify_failed /\ ~ah.store_failed /\ ~ah.bad_input) =>
              /\ alert_response.statusCode = 200
              /\ alert_response.alert_ids = [i \in 1..ah.n |-> i]

\* C29: process_high_risk_alert stores the alert record before it notifies:
\* with the alert table configured, no SNS or e-mail notification is sent for
\* an alert whose record was not stored (a failed store raises, and the handler
\* answers 500), while a failed notification does not fail the alert, which is
\* still returned and answered with 200.
C29_StoreBeforeNotify ==
    [] (NotifiedOnlyIfStored /\ AlertAnswer) /\ [][NotificationStep]_vars

\* An invocation with the table and the topic configured has stored its
\* alert and answered 200 with it although a notification failed.
C29_Witness ==
    /\ ah.pc = "idle"
    /\ ah.table /\ ah.topic
    /\ ah.notify_failed
    /\ alert_response.statusCode = 200
    /\ Len(alert_response.alert_ids) > 0
    /\ alert_table /= {}

====
